---- MODULE Spec2Model ----
(***************************************************************************)
(* Personal-Knowledge-OS: the local-first storage engine                   *)
(* (IndexedDBStorage), the domain facade (BrainStorage) and the            *)
(* content-derived relationship sync (tags, backlinks, rename              *)
(* propagation).                                                           *)
(*                                                                         *)
(* Strings are sequences of one-character strings, so that regular         *)
(* expressions, trimming and case folding are computed, not assumed.       *)
(* A transaction takes effect at the moment it is created: IndexedDB runs  *)
(* transactions with overlapping scopes in creation order.                 *)
(***************************************************************************)
EXTENDS Integers, Sequences, FiniteSets, TLC

VARIABLES
    db,        \* IndexedDBStorage.db: "null" or "open"
    schema,    \* persisted object stores: store name -> index name -> index
    version,   \* persisted database version, 0 while no database exists
    stores,    \* persisted records: store name -> (id -> record)
    clock,     \* the value the next `new Date()` returns
    used,      \* identifiers crypto.randomUUID() has handed out
    procs,     \* in-flight IndexedDBStorage.update calls
    editor,    \* the NoteEditor component: noteId, originalTitle, the save in flight
    search,    \* the GlobalSearch component: allTags and results
    succ,      \* history: id -> number of update calls on it that resolved
    last       \* history: the last completed call and what it returned

vars == <<db, schema, version, stores, clock, used, procs, editor, search, succ, last>>

----------------------------------------------------------------------------
(* Bounds *)

MaxNotes == 3      \* identifiers available to notes
MaxOps == 5        \* calls issued in one behaviour
MaxProcs == 2      \* update calls that may be in flight together
MaxLimit == 3      \* largest offset / limit passed to getAll

NoteIds == 1 .. MaxNotes
Procs == 1 .. MaxProcs

Null == [null |-> TRUE]          \* JavaScript null / undefined result
StoreNames == {"notes", "tags", "backlinks"}

----------------------------------------------------------------------------
(* Generic helpers *)

Max(a, b) == IF a >= b THEN a ELSE b

SetMax(S) == CHOOSE x \in S : \A y \in S : y <= x

SetMin(S) == CHOOSE x \in S : \A y \in S : x <= y

RECURSIVE SortAsc(_)
\* the members of a finite set of integers in ascending order
SortAsc(S) ==
    IF S = {} THEN << >>
    ELSE LET m == SetMin(S) IN <<m>> \o SortAsc(S \ {m})

RECURSIVE Reverse(_)
Reverse(s) == IF s = << >> THEN << >> ELSE Reverse(Tail(s)) \o <<Head(s)>>

\* { ...a, ...b }: shallow merge, the fields of b win
Spread(a, b) ==
    [f \in (DOMAIN a) \cup (DOMAIN b) |-> IF f \in DOMAIN b THEN b[f] ELSE a[f]]

Has(r, f) == f \in DOMAIN r

\* the part of the state the store operations read and write
World == [stores |-> stores, clock |-> clock, used |-> used]

----------------------------------------------------------------------------
(* Schema: BrainStorage's DatabaseConfig and createObjectStores *)

\* the configured indices of each store, as the constructor lists them
Config ==
    [notes |-> [createdAt |-> [keyPath |-> "createdAt", unique |-> FALSE],
                updatedAt |-> [keyPath |-> "updatedAt", unique |-> FALSE],
                isArchived |-> [keyPath |-> "isArchived", unique |-> FALSE],
                isPinned |-> [keyPath |-> "isPinned", unique |-> FALSE],
                tags |-> [keyPath |-> "tags", unique |-> FALSE]],
     tags |-> [name |-> [keyPath |-> "name", unique |-> TRUE],
               createdAt |-> [keyPath |-> "createdAt", unique |-> FALSE]],
     backlinks |-> [sourceNoteId |-> [keyPath |-> "sourceNoteId", unique |-> FALSE],
                    targetNoteId |-> [keyPath |-> "targetNoteId", unique |-> FALSE],
                    linkType |-> [keyPath |-> "linkType", unique |-> FALSE]]]

\* store.createIndex(name, keyPath, { unique }): multiEntry is not passed,
\* so the index is created with the default multiEntry = false
createIndex(index) ==
    [keyPath |-> index.keyPath, unique |-> index.unique, multiEntry |-> FALSE]

ConfigVersion == 1

\* the DatabaseConfig BrainStorage constructs its IndexedDBStorage with
DatabaseConfig == [version |-> ConfigVersion, stores |-> Config]

\* createObjectStores: a store that already exists is left as it is
createObjectStores(config, sch) ==
    [s \in (DOMAIN sch) \cup (DOMAIN config.stores) |->
        IF s \in DOMAIN sch THEN sch[s]
        ELSE [i \in DOMAIN config.stores[s] |-> createIndex(config.stores[s][i])]]

\* array-valued fields of the records (Note.tags)
ArrayFields == {"tags"}

\* the keys under which an index holds a record: none when the key path is
\* absent or not a valid key (booleans), the elements of an array only for a
\* multiEntry index, otherwise the value itself
IndexKeys(rec, index) ==
    IF ~Has(rec, index.keyPath) THEN {}
    ELSE IF index.keyPath \in {"isArchived", "isPinned"} THEN {}
    ELSE IF index.keyPath \in ArrayFields
         THEN IF index.multiEntry
              THEN {[kind |-> "scalar", v |-> rec[index.keyPath][i]] :
                        i \in DOMAIN rec[index.keyPath]}
              ELSE {[kind |-> "array", v |-> rec[index.keyPath]]}
    ELSE {[kind |-> "scalar", v |-> rec[index.keyPath]]}

\* IDBKeyRange.only(k) for a string / number k
Only(k) == [kind |-> "scalar", v |-> k]

KeyEq(a, b) == a.kind = b.kind /\ a.v = b.v

----------------------------------------------------------------------------
(* IndexedDBStorage: the generic CRUD operations.  Each takes the world w  *)
(* (stores, clock, used) and returns the world after the call, the error  *)
(* code it raised ("ok" when it resolved) and the value it resolved with. *)

Ret(w, result, value) == [w |-> w, result |-> result, value |-> value]

\* `await x` in an async function: a rejection of x is the call's rejection,
\* otherwise the call goes on with what x resolved to
Await(x, F(_)) ==
    CHOOSE y \in {IF r.result # "ok" THEN r ELSE F(r) : r \in {x}} : TRUE

\* no record under another primary key holds one of rec's keys in a unique index
UniqueOk(st, s, rec) ==
    \A i \in DOMAIN schema[s] :
        schema[s][i].unique =>
            \A other \in (DOMAIN st[s]) \ {rec.id} :
                \A k1 \in IndexKeys(st[s][other], schema[s][i]) :
                    \A k2 \in IndexKeys(rec, schema[s][i]) : ~KeyEq(k1, k2)

\* store.put(rec): insert or overwrite under rec.id
PutRecord(st, s, rec) ==
    [st EXCEPT ![s] = [k \in (DOMAIN st[s]) \cup {rec.id} |->
                          IF k = rec.id THEN rec ELSE st[s][k]]]

\* store.delete(id)
RemoveRecord(st, s, id) ==
    [st EXCEPT ![s] = [k \in (DOMAIN st[s]) \ {id} |-> st[s][k]]]

\* the entity with updatedAt set after createdAt
NewEntityTouched(data, id, now) ==
    Spread(data, [id |-> id, createdAt |-> now, updatedAt |-> now + 1,
                  sync |-> [version |-> 1, isDeleted |-> FALSE]])

\* the entity create() and batchCreate() build around the caller's data
NewEntity(data, id, now) ==
    Spread(data, [id |-> id, createdAt |-> now, updatedAt |-> now,
                  sync |-> [version |-> 1, isDeleted |-> FALSE]])

\* create(storeName, data), with id the value crypto.randomUUID() returns
Create(w, s, data, id) ==
    IF db = "null" THEN Ret(w, "DatabaseOpenFailed", Null)
    ELSE LET entity == NewEntity(data, id, w.clock)
             w1 == [w EXCEPT !.clock = @ + 1, !.used = @ \cup {id}]
         IN IF id \in DOMAIN w.stores[s] \/ ~UniqueOk(w.stores, s, entity)
            THEN Ret(w1, "TransactionFailed", Null)
            ELSE Ret([w1 EXCEPT !.stores = PutRecord(@, s, entity)], "ok", entity)

\* get(storeName, id): request.result || null
Get(w, s, id) ==
    IF db = "null" THEN Ret(w, "DatabaseOpenFailed", Null)
    ELSE IF id \in DOMAIN w.stores[s] THEN Ret(w, "ok", w.stores[s][id])
    ELSE Ret(w, "ok", Null)

\* the records the cursor visits, in order: through the index when both an
\* index and a range are given (all entries share the key, so they come in
\* primary-key order), otherwise through the store in primary-key order
CursorSeq(st, s, options) ==
    LET ids == IF options.index # "none" /\ options.range # Null
               THEN {k \in DOMAIN st[s] :
                        \E key \in IndexKeys(st[s][k], schema[s][options.index]) :
                            KeyEq(key, options.range)}
               ELSE DOMAIN st[s]
        asc == SortAsc(ids)
        ord == IF options.direction = "prev" THEN Reverse(asc) ELSE asc
    IN [i \in DOMAIN ord |-> st[s][ord[i]]]

RECURSIVE CursorLoop(_, _, _, _, _)
\* request.onsuccess of getAll: cur is the rest of the cursor sequence
CursorLoop(cur, count, results, limit, offset) ==
    IF cur # << >> /\ (limit = 0 \/ count < limit)
    THEN CursorLoop(Tail(cur), count + 1,
                    IF offset = 0 \/ count >= offset
                    THEN Append(results, Head(cur)) ELSE results,
                    limit, offset)
    ELSE results

\* no options: getAll(storeName)
NoOptions ==
    [index |-> "none", range |-> Null, direction |-> "next", limit |-> 0, offset |-> 0]

\* getAll(storeName, options); limit / offset 0 stand for 0 or undefined
GetAll(w, s, options) ==
    IF db = "null" THEN Ret(w, "DatabaseOpenFailed", << >>)
    ELSE Ret(w, "ok", CursorLoop(CursorSeq(w.stores, s, options), 0, << >>,
                                 options.limit, options.offset))

\* update(): `if (!current)`
NotFound(current) == current = Null

\* update(): the merged record that is put
UpdateMerge(current, updates, now) ==
    Spread(Spread(current, updates),
           [updatedAt |-> now,
            sync |-> Spread(current.sync, [version |-> current.sync.version + 1])])

\* update(): the write transaction, store.put(updated)
UpdatePut(w, s, current, updates) ==
    IF db = "null" THEN Ret(w, "TypeError", Null)
    ELSE LET updated == UpdateMerge(current, updates, w.clock)
             w1 == [w EXCEPT !.clock = @ + 1]
         IN IF ~UniqueOk(w.stores, s, updated)
            THEN Ret(w1, "TransactionFailed", Null)
            ELSE Ret([w1 EXCEPT !.stores = PutRecord(@, s, updated)], "ok", updated)

\* a variant of update() that inserts the record when the id is absent
UpdateUpsert(w, s, id, updates) ==
    IF db = "null" THEN Ret(w, "DatabaseOpenFailed", Null)
    ELSE Await(Get(w, s, id),
               LAMBDA g : IF NotFound(g.value)
                          THEN UpdatePut(w, s, NewEntity(updates, id, w.clock), updates)
                          ELSE UpdatePut(w, s, g.value, updates))

\* update(storeName, id, updates) run to completion with nothing interleaved
Update(w, s, id, updates) ==
    IF db = "null" THEN Ret(w, "DatabaseOpenFailed", Null)
    ELSE Await(Get(w, s, id),
               LAMBDA g : IF NotFound(g.value) THEN Ret(w, "KeyNotFound", Null)
                          ELSE UpdatePut(w, s, g.value, updates))

\* delete(storeName, id) rejecting an id the store does not hold
DeleteStrict(w, s, id) ==
    IF db = "null" THEN Ret(w, "DatabaseOpenFailed", Null)
    ELSE IF id \notin DOMAIN w.stores[s] THEN Ret(w, "KeyNotFound", Null)
    ELSE Ret([w EXCEPT !.stores = RemoveRecord(@, s, id)], "ok", Null)

\* delete(storeName, id)
Delete(w, s, id) ==
    IF db = "null" THEN Ret(w, "DatabaseOpenFailed", Null)
    ELSE Ret([w EXCEPT !.stores = RemoveRecord(@, s, id)], "ok", Null)

\* clear(storeName) without the check of the connection
ClearUnguarded(w, s) ==
    Ret([w EXCEPT !.stores = [@ EXCEPT ![s] = << >>]], "ok", Null)

\* clear(storeName)
Clear(w, s) ==
    IF db = "null" THEN Ret(w, "DatabaseOpenFailed", Null)
    ELSE Ret([w EXCEPT !.stores = [@ EXCEPT ![s] = << >>]], "ok", Null)

\* getStats(): the number of records of every object store of the database
GetStats(w) ==
    IF db = "null" THEN Ret(w, "DatabaseOpenFailed", Null)
    ELSE Ret(w, "ok", [s \in DOMAIN schema |->
                          IF s \in DOMAIN w.stores
                          THEN Cardinality(DOMAIN w.stores[s]) ELSE 0])

----------------------------------------------------------------------------
(* Strings *)

\* String.prototype.toLowerCase on one character of the alphabet
LowerChar(c) == IF c = "A" THEN "a" ELSE IF c = "B" THEN "b" ELSE c

\* s.toLowerCase()
ToLower(s) == [i \in DOMAIN s |-> LowerChar(s[i])]

\* s.includes(t)
Includes(s, t) ==
    \E i \in 0 .. (Len(s) - Len(t)) : SubSeq(s, i + 1, i + Len(t)) = t

\* array.includes(x)
Contains(seq, x) == \E i \in DOMAIN seq : seq[i] = x

\* the white space of the alphabet
WhiteSpace == {" ", "\n"}

RECURSIVE TrimStart(_)
TrimStart(s) ==
    IF s # << >> /\ Head(s) \in WhiteSpace THEN TrimStart(Tail(s)) ELSE s

\* s.trim()
Trim(s) == Reverse(TrimStart(Reverse(TrimStart(s))))

RECURSIVE FilterOut(_, _)
\* array.filter(x => x !== v)
FilterOut(seq, v) ==
    IF seq = << >> THEN << >>
    ELSE IF Head(seq) = v THEN FilterOut(Tail(seq), v)
    ELSE <<Head(seq)>> \o FilterOut(Tail(seq), v)

\* the characters [a-zA-Z0-9_-] of the alphabet
TagChars == {"a", "A", "b", "B"}

RECURSIVE TagEnd(_, _)
\* the last position of the run of tag characters that starts at i
TagEnd(content, i) ==
    IF i + 1 <= Len(content) /\ content[i + 1] \in TagChars
    THEN TagEnd(content, i + 1) ELSE i

RECURSIVE ExtractTagsFrom(_, _, _)
\* the hashtagRegex.exec loop from position i on
ExtractTagsFrom(content, i, tags) ==
    IF i > Len(content) THEN tags
    ELSE IF content[i] = "#" /\ i + 1 <= Len(content) /\ content[i + 1] \in TagChars
    THEN LET e == TagEnd(content, i + 1)
             tag == ToLower(SubSeq(content, i + 1, e))
         IN ExtractTagsFrom(content, e + 1,
                            IF Contains(tags, tag) THEN tags ELSE Append(tags, tag))
    ELSE ExtractTagsFrom(content, i + 1, tags)

\* extractTagsFromContent(content)
extractTagsFromContent(content) == ExtractTagsFrom(content, 1, << >>)

----------------------------------------------------------------------------
(* BrainStorage: the domain facade *)

\* the identifier crypto.randomUUID() returns inside a composite operation:
\* an unused one (which one does not show in any result of these operations)
FreshId(w) == SetMax(w.used \cup {MaxNotes}) + 1

\* x.f || dflt for the fields createNote / createTag default
OrElse(r, f, falsy, dflt) == IF Has(r, f) /\ r[f] # falsy THEN r[f] ELSE dflt

\* createNote(noteData)
createNote(w, noteData, id) ==
    Create(w, "notes",
           Spread(noteData,
                  [tags |-> IF Has(noteData, "tags") THEN noteData.tags ELSE << >>,
                   backlinks |-> IF Has(noteData, "backlinks")
                                 THEN noteData.backlinks ELSE << >>,
                   isArchived |-> OrElse(noteData, "isArchived", FALSE, FALSE),
                   isPinned |-> OrElse(noteData, "isPinned", FALSE, FALSE)]),
           id)

RECURSIVE FilterNotesAny(_, _)
\* the filters of getAllNotes composed disjunctively: a note passing any
\* given filter is kept
FilterNotesAny(notes, options) ==
    IF notes = << >> THEN << >>
    ELSE LET note == Head(notes)
             keep ==
                \/ /\ options.tags # << >>
                   /\ \E i \in DOMAIN options.tags :
                         Contains(note.tags, options.tags[i])
                \/ /\ options.isArchived # "undefined"
                   /\ note.isArchived = (options.isArchived = "true")
                \/ /\ options.isPinned # "undefined"
                   /\ note.isPinned = (options.isPinned = "true")
                \/ /\ options.searchTerm # << >>
                   /\ \/ Includes(ToLower(note.title), ToLower(options.searchTerm))
                      \/ Includes(ToLower(note.content), ToLower(options.searchTerm))
         IN (IF keep THEN <<note>> ELSE << >>)
               \o FilterNotesAny(Tail(notes), options)

RECURSIVE FilterNotes(_, _)
\* the four in-memory filters of getAllNotes, in their order
FilterNotes(notes, options) ==
    IF notes = << >> THEN << >>
    ELSE LET note == Head(notes)
             keep ==
                /\ (options.tags # << >> =>
                       \E i \in DOMAIN options.tags : Contains(note.tags, options.tags[i]))
                /\ (options.isArchived # "undefined" =>
                       note.isArchived = (options.isArchived = "true"))
                /\ (options.isPinned # "undefined" =>
                       note.isPinned = (options.isPinned = "true"))
                /\ (options.searchTerm # << >> =>
                       \/ Includes(ToLower(note.title), ToLower(options.searchTerm))
                       \/ Includes(ToLower(note.content), ToLower(options.searchTerm)))
         IN (IF keep THEN <<note>> ELSE << >>) \o FilterNotes(Tail(notes), options)

\* getAllNotes(): no options
NoNoteOptions ==
    [direction |-> "undefined", limit |-> 0, offset |-> 0, tags |-> << >>,
     isArchived |-> "undefined", isPinned |-> "undefined", searchTerm |-> << >>,
     sortBy |-> "undefined", sortOrder |-> "undefined"]

\* getAllNotes(options): only direction, limit and offset reach the store
getAllNotes(w, options) ==
    Await(GetAll(w, "notes",
                 [index |-> "none", range |-> Null,
                  direction |-> IF options.direction = "undefined"
                                THEN "next" ELSE options.direction,
                  limit |-> options.limit, offset |-> options.offset]),
          LAMBDA r : Ret(w, "ok", FilterNotes(r.value, options)))

\* updateNote(id, updates)
updateNote(w, id, updates) == Update(w, "notes", id, updates)

\* deleteNote(id)
deleteNote(w, id) == Delete(w, "notes", id)

\* getTagByName(name)
getTagByName(w, name) ==
    Await(GetAll(w, "tags", [NoOptions EXCEPT !.index = "name", !.range = Only(name)]),
          LAMBDA r : Ret(w, "ok", IF Len(r.value) > 0 THEN r.value[1] ELSE Null))

DefaultColor == "#3b82f6"

\* createTag writing the later call's fields over the existing Tag
createTagUpsert(w, tagData, id) ==
    Await(GetAll(w, "tags",
                 [NoOptions EXCEPT !.index = "name", !.range = Only(tagData.name)]),
          LAMBDA r :
             IF Len(r.value) > 0 THEN Update(w, "tags", r.value[1].id, tagData)
             ELSE Create(w, "tags",
                         Spread(tagData,
                                [color |-> OrElse(tagData, "color", "", DefaultColor),
                                 description |-> OrElse(tagData, "description", "", ""),
                                 isSystemTag |->
                                     OrElse(tagData, "isSystemTag", FALSE, FALSE)]),
                         id))

\* createTag(tagData)
createTag(w, tagData, id) ==
    Await(GetAll(w, "tags",
                 [NoOptions EXCEPT !.index = "name", !.range = Only(tagData.name)]),
          LAMBDA r :
             IF Len(r.value) > 0 THEN Ret(w, "ok", r.value[1])
             ELSE Create(w, "tags",
                         Spread(tagData,
                                [color |-> OrElse(tagData, "color", "", DefaultColor),
                                 description |-> OrElse(tagData, "description", "", ""),
                                 isSystemTag |->
                                     OrElse(tagData, "isSystemTag", FALSE, FALSE)]),
                         id))

RECURSIVE DeleteTagLoop(_, _, _)
\* deleteTag(): the loop over notesWithTag
DeleteTagLoop(w, notesWithTag, id) ==
    IF notesWithTag = << >> THEN Ret(w, "ok", Null)
    ELSE Await(updateNote(w, Head(notesWithTag).id,
                          [tags |-> FilterOut(Head(notesWithTag).tags, id)]),
               LAMBDA r : DeleteTagLoop(r.w, Tail(notesWithTag), id))

\* deleteTag(id)
deleteTag(w, id) ==
    Await(GetAll(w, "notes", [NoOptions EXCEPT !.index = "tags", !.range = Only(id)]),
          LAMBDA q : Await(DeleteTagLoop(w, q.value, id),
                           LAMBDA r : Delete(r.w, "tags", id)))

RECURSIVE ClearLoop(_, _)
\* clearAllData(): clear each store in turn
ClearLoop(w, names) ==
    IF names = << >> THEN Ret(w, "ok", Null)
    ELSE Await(Clear(w, Head(names)), LAMBDA r : ClearLoop(r.w, Tail(names)))

\* clearAllData()
clearAllData(w) == ClearLoop(w, <<"notes", "tags", "backlinks">>)

----------------------------------------------------------------------------
(* Tag sync *)

RECURSIVE SyncTagsLoop(_, _, _, _)
\* syncTagsForNote(): get or create each tag, collecting the ids
SyncTagsLoop(w, tagNames, tagIds, color) ==
    IF tagNames = << >> THEN Ret(w, "ok", tagIds)
    ELSE Await(getTagByName(w, Head(tagNames)),
               LAMBDA f :
                  IF f.value # Null
                  THEN SyncTagsLoop(w, Tail(tagNames), Append(tagIds, f.value.id), color)
                  ELSE Await(createTag(w, [name |-> Head(tagNames), color |-> color],
                                       FreshId(w)),
                             LAMBDA c : SyncTagsLoop(c.w, Tail(tagNames),
                                                     Append(tagIds, c.value.id), color)))

\* syncTagsForNote adding the resolved ids to the ids the note has
syncTagsForNoteMerge(w, noteId, content, color) ==
    Await(SyncTagsLoop(w, extractTagsFromContent(content), << >>, color),
          LAMBDA r :
             Await(Get(r.w, "notes", noteId),
                   LAMBDA g :
                      Await(updateNote(r.w, noteId,
                                       [tags |-> (IF NotFound(g.value) THEN << >>
                                                  ELSE g.value.tags) \o r.value]),
                            LAMBDA u : Ret(u.w, "ok", r.value))))

\* syncTagsForNote(noteId, content); color is what getRandomTagColor() returns
syncTagsForNote(w, noteId, content, color) ==
    Await(SyncTagsLoop(w, extractTagsFromContent(content), << >>, color),
          LAMBDA r : Await(updateNote(r.w, noteId, [tags |-> r.value]),
                           LAMBDA u : Ret(u.w, "ok", r.value)))

----------------------------------------------------------------------------
(* Backlinks: wiki-link extraction, backlink sync, rename propagation *)

ContextRadius == 50

RECURSIVE FirstBracket(_, _)
\* the first position >= j that holds "]", or 0 when there is none
FirstBracket(content, j) ==
    IF j > Len(content) THEN 0
    ELSE IF content[j] = "]" THEN j
    ELSE FirstBracket(content, j + 1)

\* wikiLinkRegex /\[\[([^\]]+)\]\]/ tried at position i: the position of the
\* closing bracket of the match, or 0 when it does not match there
WikiMatchEnd(content, i) ==
    IF i + 1 <= Len(content) /\ content[i] = "[" /\ content[i + 1] = "["
    THEN LET j == FirstBracket(content, i + 2)
         IN IF j > i + 2 /\ j + 1 <= Len(content) /\ content[j + 1] = "]"
            THEN j + 1 ELSE 0
    ELSE 0

RECURSIVE ExtractLinksFrom(_, _, _)
\* the wikiLinkRegex.exec loop from position i on (positions are 1-based
\* here, the recorded start / end offsets are the 0-based ones of the code)
ExtractLinksFrom(content, i, links) ==
    IF i > Len(content) THEN links
    ELSE LET e == WikiMatchEnd(content, i)
         IN IF e = 0 THEN ExtractLinksFrom(content, i + 1, links)
            ELSE LET start == i - 1
                     contextStart == Max(0, start - ContextRadius)
                     contextEnd == IF e + ContextRadius <= Len(content)
                                   THEN e + ContextRadius ELSE Len(content)
                 IN ExtractLinksFrom(content, e + 1,
                        Append(links,
                               [title |-> Trim(SubSeq(content, i + 2, e - 2)),
                                position |-> [start |-> start, end |-> e],
                                context |-> SubSeq(content, contextStart + 1,
                                                   contextEnd)]))

\* extractWikiLinksFromContent(content)
extractWikiLinksFromContent(content) == ExtractLinksFrom(content, 1, << >>)

\* createBacklink(backlinkData)
createBacklink(w, backlinkData, id) == Create(w, "backlinks", backlinkData, id)

\* deleteBacklink(id)
deleteBacklink(w, id) == Delete(w, "backlinks", id)

\* getBacklinksForNote(noteId): [...sourceBacklinks, ...targetBacklinks]
getBacklinksForNote(w, noteId) ==
    Await(GetAll(w, "backlinks",
                 [NoOptions EXCEPT !.index = "sourceNoteId", !.range = Only(noteId)]),
          LAMBDA src :
             Await(GetAll(w, "backlinks",
                          [NoOptions EXCEPT !.index = "targetNoteId",
                                            !.range = Only(noteId)]),
                   LAMBDA tgt : Ret(w, "ok", src.value \o tgt.value)))

RECURSIVE RemoveLoop(_, _)
\* removeBacklinksFromNote(): delete each of existingBacklinks
RemoveLoop(w, existingBacklinks) ==
    IF existingBacklinks = << >> THEN Ret(w, "ok", Null)
    ELSE Await(deleteBacklink(w, Head(existingBacklinks).id),
               LAMBDA r : RemoveLoop(r.w, Tail(existingBacklinks)))

\* removeBacklinksFromNote(noteId)
removeBacklinksFromNote(w, noteId) ==
    Await(getBacklinksForNote(w, noteId), LAMBDA r : RemoveLoop(w, r.value))

RECURSIVE Find(_, _, _)
\* array.find over notes: Test(note, title) picks the note; Null when none
Find(notes, title, exact) ==
    IF notes = << >> THEN Null
    ELSE IF (IF exact THEN ToLower(Head(notes).title) = ToLower(title)
             ELSE Includes(ToLower(Head(notes).title), ToLower(title)))
    THEN Head(notes)
    ELSE Find(Tail(notes), title, exact)

\* findNoteByTitle taking the first title that contains the link title
findNoteByTitleLoose(w, title) ==
    Await(getAllNotes(w, NoNoteOptions),
          LAMBDA r : Ret(w, "ok", Find(r.value, title, FALSE)))

\* findNoteByTitle(title): exact match first, then the first title that
\* contains it
findNoteByTitle(w, title) ==
    Await(getAllNotes(w, NoNoteOptions),
          LAMBDA r : Ret(w, "ok", IF Find(r.value, title, TRUE) # Null
                                  THEN Find(r.value, title, TRUE)
                                  ELSE Find(r.value, title, FALSE)))

RECURSIVE CreateLinksLoop(_, _, _)
\* syncBacklinksForNote(): create a backlink for each link that resolves
CreateLinksLoop(w, noteId, wikiLinks) ==
    IF wikiLinks = << >> THEN Ret(w, "ok", Null)
    ELSE Await(findNoteByTitle(w, Head(wikiLinks).title),
               LAMBDA f :
                  IF f.value = Null THEN CreateLinksLoop(w, noteId, Tail(wikiLinks))
                  ELSE Await(createBacklink(w,
                                 [sourceNoteId |-> noteId, targetNoteId |-> f.value.id,
                                  linkType |-> "wiki",
                                  context |-> Head(wikiLinks).context,
                                  position |-> Head(wikiLinks).position],
                                 FreshId(w)),
                             LAMBDA c : CreateLinksLoop(c.w, noteId, Tail(wikiLinks))))

\* syncBacklinksForNote without the teardown of the existing rows
syncBacklinksAppend(w, noteId, content) ==
    CreateLinksLoop(w, noteId, extractWikiLinksFromContent(content))

\* syncBacklinksForNote(noteId, content)
syncBacklinksForNote(w, noteId, content) ==
    Await(removeBacklinksFromNote(w, noteId),
          LAMBDA r : CreateLinksLoop(r.w, noteId, extractWikiLinksFromContent(content)))

\* one character of the title used as a regular expression (flags 'gi'):
\* "." matches any character but a line break, a letter matches itself in
\* either case
PatChar(p, c) == IF p = "." THEN c # "\n" ELSE LowerChar(p) = LowerChar(c)

\* new RegExp(`\\[\\[${oldTitle}\\]\\]`, 'gi') matches at position i
RenameMatchAt(content, i, oldTitle) ==
    LET n == Len(oldTitle)
    IN /\ i + n + 3 <= Len(content)
       /\ content[i] = "[" /\ content[i + 1] = "["
       /\ \A k \in 1 .. n : PatChar(oldTitle[k], content[i + 1 + k])
       /\ content[i + n + 2] = "]" /\ content[i + n + 3] = "]"

\* regex.test(content)
RenameTest(content, oldTitle) ==
    \E i \in 1 .. Len(content) : RenameMatchAt(content, i, oldTitle)

RECURSIVE RenameReplaceFrom(_, _, _, _)
\* content.replace(regex, `[[${newTitle}]]`): every match, left to right
RenameReplaceFrom(content, i, oldTitle, newTitle) ==
    IF i > Len(content) THEN << >>
    ELSE IF RenameMatchAt(content, i, oldTitle)
    THEN <<"[", "[">> \o newTitle \o <<"]", "]">>
            \o RenameReplaceFrom(content, i + Len(oldTitle) + 4, oldTitle, newTitle)
    ELSE <<content[i]>> \o RenameReplaceFrom(content, i + 1, oldTitle, newTitle)

RECURSIVE RenameLoop(_, _, _, _, _)
\* updateBacklinksOnNoteRename(): the loop over allNotes
RenameLoop(w, allNotes, note, oldTitle, newTitle) ==
    IF allNotes = << >> THEN Ret(w, "ok", Null)
    ELSE IF \/ Head(allNotes).id = note.id
            \/ ~RenameTest(Head(allNotes).content, oldTitle)
    THEN RenameLoop(w, Tail(allNotes), note, oldTitle, newTitle)
    ELSE Await(updateNote(w, Head(allNotes).id,
                          [content |-> RenameReplaceFrom(Head(allNotes).content, 1,
                                                         oldTitle, newTitle)]),
               LAMBDA u :
                  Await(syncBacklinksForNote(u.w, Head(allNotes).id, u.value.content),
                        LAMBDA b : RenameLoop(b.w, Tail(allNotes), note,
                                              oldTitle, newTitle)))

\* updateBacklinksOnNoteRename(oldTitle, newTitle)
updateBacklinksOnNoteRename(w, oldTitle, newTitle) ==
    Await(findNoteByTitle(w, oldTitle),
          LAMBDA f :
             IF f.value = Null THEN Ret(w, "ok", Null)
             ELSE Await(getAllNotes(w, NoNoteOptions),
                        LAMBDA all : RenameLoop(w, all.value, f.value,
                                                oldTitle, newTitle)))

----------------------------------------------------------------------------
(* The Entity Store driven call by call on the "notes" collection:         *)
(* every call completes before the next one is issued.                     *)

TitleA == <<"a">>
TitleB == <<"a", "b">>

\* the data of the records the callers create
DataItems == {[title |-> TitleA], [title |-> TitleB]}

CallerSync == [version |-> 7, isDeleted |-> TRUE]

\* the partial records the callers pass to update (Partial<T>: any field of
\* T, its id, timestamps and sync metadata included)
Partials ==
    {[title |-> TitleB], [sync |-> CallerSync], [updatedAt |-> 0], [createdAt |-> 0]}
        \cup {[id |-> i] : i \in NoteIds}

\* the partial records that carry payload fields only
DataPartials == {[title |-> TitleA], [title |-> TitleB]}

\* the options the callers pass to getAll
QueryOptionsSet ==
    {[index |-> "none", range |-> Null, direction |-> d, limit |-> l, offset |-> o] :
        d \in {"next", "prev"}, l \in 0 .. MaxLimit, o \in 0 .. MaxLimit}

Idle == [pc |-> "idle"]

\* the noteId prop left undefined
NoNote == 0

\* the NoteEditor mounted without a note: originalTitle is '', the content
\* state (text) is initialContent = '' and hasUnsavedChanges is false
NewEditor ==
    [noteId |-> NoNote, originalTitle |-> << >>, pc |-> "idle", content |-> << >>,
     text |-> << >>, hasUnsavedChanges |-> FALSE]

\* the GlobalSearch component as it is mounted: useState([]) for both
NewSearch == [allTags |-> << >>, loaded |-> FALSE, results |-> << >>]

InitStore ==
    /\ db = "null"
    /\ schema = << >>
    /\ version = 0
    /\ stores = [s \in StoreNames |-> << >>]
    /\ clock = 1
    /\ used = {}
    /\ procs = [p \in Procs |-> Idle]
    /\ editor = NewEditor
    /\ search = NewSearch
    /\ succ = [i \in NoteIds |-> 0]
    /\ last = [n |-> 0, op |-> "none", result |-> "ok"]

\* the calls issued so far: the completed ones and those in flight
Issued == last.n + Cardinality({p \in Procs : procs[p].pc # "idle"})

Budget == Issued < MaxOps

SetWorld(w) ==
    /\ stores' = w.stores
    /\ clock' = w.clock
    /\ used' = w.used

\* initialize() of an IndexedDBStorage constructed with config:
\* indexedDB.open(name, config.version). A stored version above the
\* requested one is an error of the open request; a stored version below it
\* runs onupgradeneeded (a database that does not exist has version 0), for
\* which the engine waits until no connection to the database is open
OpenDatabase(config) ==
    /\ Budget
    /\ (0 < version /\ version < config.version) => db = "null"
    /\ IF version > config.version
       THEN /\ last' = [n |-> last.n + 1, op |-> "initialize",
                        requested |-> config.version,
                        result |-> "DatabaseOpenFailed"]
            /\ UNCHANGED <<db, schema, version>>
       ELSE /\ db' = "open"
            /\ version' = config.version
            /\ schema' = IF version < config.version
                         THEN createObjectStores(config, schema) ELSE schema
            /\ last' = [n |-> last.n + 1, op |-> "initialize",
                        requested |-> config.version, result |-> "ok"]
    /\ UNCHANGED <<stores, clock, used, procs, editor, search, succ>>

\* initialize() of the BrainStorage singleton
Initialize == OpenDatabase(DatabaseConfig)

\* close()
Close ==
    /\ Budget
    /\ db' = "null"
    /\ last' = [n |-> last.n + 1, op |-> "close", result |-> "ok"]
    /\ UNCHANGED <<schema, version, stores, clock, used, procs, editor, search, succ>>

CreateCall(data, id) ==
    /\ Budget
    /\ id \notin used
    /\ \E r \in {Create(World, "notes", data, id)} :
          /\ SetWorld(r.w)
          /\ last' = [n |-> last.n + 1, op |-> "create", id |-> id, data |-> data,
                      result |-> r.result, value |-> r.value]
    /\ UNCHANGED <<db, schema, version, procs, editor, search, succ>>

UpdateCall(id, updates) ==
    /\ Budget
    /\ \A p \in Procs : procs[p].pc = "idle"
    /\ \E r \in {Update(World, "notes", id, updates)} :
          /\ SetWorld(r.w)
          /\ succ' = IF r.result = "ok" THEN [succ EXCEPT ![id] = @ + 1] ELSE succ
          /\ last' = [n |-> last.n + 1, op |-> "update", id |-> id,
                      updates |-> updates, result |-> r.result, value |-> r.value]
    /\ UNCHANGED <<db, schema, version, procs, editor, search>>

DeleteCall(id) ==
    /\ Budget
    /\ \E r \in {Delete(World, "notes", id)} :
          /\ SetWorld(r.w)
          /\ last' = [n |-> last.n + 1, op |-> "delete", id |-> id,
                      existed |-> id \in DOMAIN stores["notes"], result |-> r.result]
    /\ UNCHANGED <<db, schema, version, procs, editor, search, succ>>

GetAllCall(options) ==
    /\ Budget
    /\ \E r \in {GetAll(World, "notes", options)} :
          /\ SetWorld(r.w)
          /\ last' = [n |-> last.n + 1, op |-> "getAll", options |-> options,
                      result |-> r.result, value |-> r.value]
    /\ UNCHANGED <<db, schema, version, procs, editor, search, succ>>

NextStore ==
    \/ Initialize
    \/ Close
    \/ \E data \in DataItems, id \in NoteIds : CreateCall(data, id)
    \/ \E id \in NoteIds, updates \in Partials : UpdateCall(id, updates)
    \/ \E id \in NoteIds : DeleteCall(id)

Spec == InitStore /\ [][NextStore]_vars

\* the Entity Store as its readers drive it: records come and go, and
\* getAll pages through them
NextQuery ==
    \/ Initialize
    \/ \E data \in DataItems, id \in NoteIds : CreateCall(data, id)
    \/ \E id \in NoteIds : DeleteCall(id)
    \/ \E options \in QueryOptionsSet : GetAllCall(options)

SpecQuery == InitStore /\ [][NextQuery]_vars

----------------------------------------------------------------------------
(* The Entity Store with update calls in flight together: update() awaits  *)
(* its read transaction before it opens its write transaction, so other    *)
(* calls run between the two.                                              *)

\* update() up to the await: the guard and the read transaction
UpdateBegin(p, id, updates) ==
    /\ Budget
    /\ procs[p].pc = "idle"
    /\ LET r == Get(World, "notes", id)
       IN IF r.result # "ok" \/ NotFound(r.value)
          THEN /\ last' = [n |-> last.n + 1, op |-> "update", id |-> id,
                           updates |-> updates,
                           result |-> IF r.result # "ok" THEN r.result
                                      ELSE "KeyNotFound",
                           value |-> Null]
               /\ UNCHANGED procs
          ELSE /\ procs' = [procs EXCEPT ![p] =
                              [pc |-> "put", id |-> id, updates |-> updates,
                               current |-> r.value]]
               /\ UNCHANGED last
    /\ UNCHANGED <<db, schema, version, stores, clock, used, editor, search, succ>>

\* update() after the await: merge and the write transaction
UpdateWrite(p) ==
    /\ procs[p].pc = "put"
    /\ \E r \in {UpdatePut(World, "notes", procs[p].current, procs[p].updates)} :
          /\ SetWorld(r.w)
          /\ succ' = IF r.result = "ok"
                     THEN [succ EXCEPT ![procs[p].id] = @ + 1] ELSE succ
          /\ last' = [n |-> last.n + 1, op |-> "update", id |-> procs[p].id,
                      updates |-> procs[p].updates,
                      result |-> r.result, value |-> r.value]
    /\ procs' = [procs EXCEPT ![p] = Idle]
    /\ UNCHANGED <<db, schema, version, editor, search>>

NextConc ==
    \/ Initialize
    \/ \E data \in DataItems, id \in NoteIds : CreateCall(data, id)
    \/ \E p \in Procs, id \in NoteIds, updates \in DataPartials :
          UpdateBegin(p, id, updates)
    \/ \E p \in Procs : UpdateWrite(p)
    \/ \E id \in NoteIds : DeleteCall(id)

SpecConc == InitStore /\ [][NextConc]_vars

----------------------------------------------------------------------------
(* Claims about the Entity Store *)

Notes == stores["notes"]

\* the step completes an update call on id
UpdateDone(id) ==
    /\ last'.n = last.n + 1
    /\ last'.op = "update"
    /\ last'.id = id

\* C1: with update calls issued one at a time, the stored sync.version of
\* every record equals 1 + the number of update calls on it that resolved,
\* whatever fields the partial records carried
C1_VersionCountsUpdates ==
    \A id \in DOMAIN Notes : Notes[id].sync.version = 1 + succ[id]

\* C2: under any interleaving of update calls, the persisted sync.version of
\* a record never decreases from one persisted state to the next, and every
\* update call that resolves raises it by exactly 1
C2_VersionMonotone ==
    [][\A id \in DOMAIN Notes :
          id \in DOMAIN Notes' =>
             /\ Notes'[id].sync.version >= Notes[id].sync.version
             /\ (UpdateDone(id) /\ last'.result = "ok") =>
                    Notes'[id].sync.version = Notes[id].sync.version + 1]_vars

\* C3 as stated: update on an id that is not in the collection always fails
\* with KeyNotFound and changes no collection
C3_MissingIdKeyNotFound ==
    [][\A id \in NoteIds :
          (UpdateDone(id) /\ id \notin DOMAIN Notes) =>
             (last'.result = "KeyNotFound" /\ stores' = stores)]_vars

\* C3 amended: on an open store, update on an id that is not in the
\* collection fails with KeyNotFound and changes no collection
C3_MissingIdKeyNotFoundWhenOpen ==
    [][\A id \in NoteIds :
          (UpdateDone(id) /\ db = "open" /\ id \notin DOMAIN Notes) =>
             (last'.result = "KeyNotFound" /\ stores' = stores)]_vars

\* an update call on an absent id of an open store has failed with KeyNotFound
C3_Witness ==
    /\ db = "open"
    /\ last.op = "update"
    /\ last.result = "KeyNotFound"
    /\ last.id \notin DOMAIN Notes
    /\ Notes # << >>

Min(a, b) == IF a <= b THEN a ELSE b

\* the records at positions o, o+1, ..., o+l-1 (counted from 0) of seq
Page(seq, o, l) == SubSeq(seq, o + 1, Min(o + l, Len(seq)))

\* C9: getAll with offset o and limit l returns exactly the records at
\* positions o .. o+l-1 of the ordered cursor sequence
C9_PageIsOffsetLimit ==
    (last.op = "getAll" /\ last.result = "ok" /\ last.options.limit > 0) =>
        last.value = Page(CursorSeq(stores, "notes", last.options),
                          last.options.offset, last.options.limit)

----------------------------------------------------------------------------
(* The facade and the tag sync driven call by call *)

\* note contents with hashtags: "#a", "#a #A", "#b #a", and "a" with none
TagContents ==
    {<<"#", "a">>, <<"#", "a", " ", "#", "A">>, <<"#", "b", " ", "#", "a">>, <<"a">>}

\* what getRandomTagColor() may return (two of the ten palette entries)
TagColors == {"#3b82f6", "#ef4444"}

\* the note the editor creates: createNote with empty tags and backlinks
NoteInput(title, content) ==
    [title |-> title, content |-> content, tags |-> << >>, backlinks |-> << >>,
     isArchived |-> FALSE, isPinned |-> FALSE]

\* the identifiers the behaviours can hand out: at most two per call
AllIds == 1 .. (MaxNotes + 2 * MaxOps)

\* the ids a caller can hold: note ids, and ids of records created so far
KnownIds == NoteIds \cup used

\* the options passed to getAllNotes: none, or the README's "recent notes"
NoteQueries ==
    {NoNoteOptions}
        \cup {[NoNoteOptions EXCEPT !.sortBy = "updatedAt", !.sortOrder = "desc",
                                    !.limit = l] : l \in 0 .. MaxLimit}

CreateNoteCall(noteData, id) ==
    /\ Budget
    /\ id \in NoteIds \ used
    /\ \E r \in {createNote(World, noteData, id)} :
          /\ SetWorld(r.w)
          /\ last' = [n |-> last.n + 1, op |-> "createNote", id |-> id,
                      result |-> r.result, value |-> r.value]
    /\ UNCHANGED <<db, schema, version, procs, editor, search, succ>>

SyncTagsCall(noteId, content, color) ==
    /\ Budget
    /\ \E r \in {syncTagsForNote(World, noteId, content, color)} :
          /\ SetWorld(r.w)
          /\ last' = [n |-> last.n + 1, op |-> "syncTagsForNote", id |-> noteId,
                      content |-> content, result |-> r.result, value |-> r.value]
    /\ UNCHANGED <<db, schema, version, procs, editor, search, succ>>

DeleteTagCall(id) ==
    /\ Budget
    /\ id \in KnownIds
    /\ \E r \in {deleteTag(World, id)} :
          /\ SetWorld(r.w)
          /\ last' = [n |-> last.n + 1, op |-> "deleteTag", id |-> id,
                      result |-> r.result]
    /\ UNCHANGED <<db, schema, version, procs, editor, search, succ>>

DeleteNoteCall(id) ==
    /\ Budget
    /\ \E r \in {deleteNote(World, id)} :
          /\ SetWorld(r.w)
          /\ last' = [n |-> last.n + 1, op |-> "deleteNote", id |-> id,
                      result |-> r.result]
    /\ UNCHANGED <<db, schema, version, procs, editor, search, succ>>

ClearAllDataCall ==
    /\ Budget
    /\ \E r \in {clearAllData(World)} :
          /\ SetWorld(r.w)
          /\ last' = [n |-> last.n + 1, op |-> "clearAllData", result |-> r.result]
    /\ UNCHANGED <<db, schema, version, procs, editor, search, succ>>

GetAllNotesCall(options) ==
    /\ Budget
    /\ \E r \in {getAllNotes(World, options)} :
          /\ SetWorld(r.w)
          /\ last' = [n |-> last.n + 1, op |-> "getAllNotes", options |-> options,
                      result |-> r.result, value |-> r.value]
    /\ UNCHANGED <<db, schema, version, procs, editor, search, succ>>

NextTags ==
    \/ Initialize
    \/ \E id \in NoteIds : CreateNoteCall(NoteInput(TitleA, <<"a">>), id)
    \/ \E id \in NoteIds, content \in TagContents, color \in TagColors :
          SyncTagsCall(id, content, color)
    \/ \E id \in AllIds : DeleteTagCall(id)
    \/ \E id \in NoteIds : DeleteNoteCall(id)
    \/ ClearAllDataCall
    \/ \E options \in NoteQueries : GetAllNotesCall(options)

SpecTags == InitStore /\ [][NextTags]_vars

----------------------------------------------------------------------------
(* Claims about the facade and the tag sync *)

Tags == stores["tags"]

Backlinks == stores["backlinks"]

\* the step completes a call of op on id that resolved
CallDone(op, id) ==
    /\ last'.n = last.n + 1
    /\ last'.op = op
    /\ last'.id = id
    /\ last'.result = "ok"

\* C4: deleteTag(id) leaves no note whose tags array contains id and no Tag
\* record with that id, and keeps the other entries of every tags array in
\* order
C4_DeleteTagCascades ==
    [][\A id \in AllIds :
          CallDone("deleteTag", id) =>
             /\ id \notin DOMAIN Tags'
             /\ DOMAIN Notes' = DOMAIN Notes
             /\ \A n \in DOMAIN Notes :
                   Notes'[n].tags = FilterOut(Notes[n].tags, id)]_vars

\* C5: in every quiescent state every identifier in every note's tags array
\* is the id of an existing Tag record
C5_TagsReferToTags ==
    \A n \in DOMAIN Notes :
        \A i \in DOMAIN Notes[n].tags : Notes[n].tags[i] \in DOMAIN Tags

\* the notes of seq are in non-increasing updatedAt order
NonIncreasingUpdatedAt(seq) ==
    \A i, j \in DOMAIN seq : i < j => seq[i].updatedAt >= seq[j].updatedAt

\* C10: getAllNotes with sortBy = 'updatedAt' and sortOrder = 'desc' returns
\* notes in non-increasing updatedAt order, and with limit k the k most
\* recently updated notes
C10_RecentNotesFirst ==
    (/\ last.op = "getAllNotes"
     /\ last.result = "ok"
     /\ last.options.sortBy = "updatedAt"
     /\ last.options.sortOrder = "desc") =>
        /\ NonIncreasingUpdatedAt(last.value)
        /\ last.options.limit > 0 =>
              /\ Len(last.value) = Min(last.options.limit, Cardinality(DOMAIN Notes))
              /\ \A i \in DOMAIN last.value :
                    \A n \in DOMAIN Notes :
                        (\A j \in DOMAIN last.value : last.value[j].id # n) =>
                            Notes[n].updatedAt <= last.value[i].updatedAt

----------------------------------------------------------------------------
(* The facade and the backlink sync driven call by call *)

TitleDot == <<"a", ".", "b">>
TitleNew == <<"b">>

\* the notes the callers create: (title, content) with content
\* "a", "[[A]] [[ab]]", "[[a]]" and "[[aab]]"
LinkNotes ==
    {NoteInput(TitleA, <<"a">>),
     NoteInput(TitleB, <<"[", "[", "A", "]", "]", " ", "[", "[", "a", "b", "]", "]">>),
     NoteInput(TitleDot, <<"[", "[", "a", "]", "]">>),
     NoteInput(TitleNew, <<"[", "[", "a", "a", "b", "]", "]">>)}

\* the contents passed to syncBacklinksForNote: "a", "[[a]]", "[[ab]] [[b]]"
LinkContents ==
    {<<"a">>, <<"[", "[", "a", "]", "]">>,
     <<"[", "[", "a", "b", "]", "]", " ", "[", "[", "b", "]", "]">>}

\* the titles passed to updateBacklinksOnNoteRename as the old title
OldTitles == {TitleA, TitleDot}

SyncBacklinksCall(noteId, content) ==
    /\ Budget
    /\ noteId \in DOMAIN stores["notes"]
    /\ \E r \in {syncBacklinksForNote(World, noteId, content)} :
          /\ SetWorld(r.w)
          /\ last' = [n |-> last.n + 1, op |-> "syncBacklinksForNote", id |-> noteId,
                      content |-> content, result |-> r.result]
    /\ UNCHANGED <<db, schema, version, procs, editor, search, succ>>

RenameCall(oldTitle, newTitle) ==
    /\ Budget
    /\ \E r \in {updateBacklinksOnNoteRename(World, oldTitle, newTitle)} :
          /\ SetWorld(r.w)
          /\ last' = [n |-> last.n + 1, op |-> "updateBacklinksOnNoteRename",
                      oldTitle |-> oldTitle, newTitle |-> newTitle,
                      result |-> r.result]
    /\ UNCHANGED <<db, schema, version, procs, editor, search, succ>>

NextLinks ==
    \/ Initialize
    \/ \E noteData \in LinkNotes, id \in NoteIds : CreateNoteCall(noteData, id)
    \/ \E id \in NoteIds, content \in LinkContents : SyncBacklinksCall(id, content)
    \/ \E oldTitle \in OldTitles : RenameCall(oldTitle, TitleNew)

SpecLinks == InitStore /\ [][NextLinks]_vars

----------------------------------------------------------------------------
(* Claims about the backlink sync and the rename propagation *)

\* C6: syncBacklinksForNote(n, content) deletes exactly the existing Backlink
\* rows whose sourceNoteId is n: every row whose sourceNoteId is another
\* note, rows that target n included, is still present and unchanged
C6_SyncDeletesOnlyOutgoing ==
    [][\A n \in NoteIds :
          CallDone("syncBacklinksForNote", n) =>
             \A b \in DOMAIN Backlinks :
                IF Backlinks[b].sourceNoteId = n
                THEN b \notin DOMAIN Backlinks'
                ELSE b \in DOMAIN Backlinks' /\ Backlinks'[b] = Backlinks[b]]_vars

\* the wiki-link [[t]] with t equal to oldTitle ignoring case stands at i
ExactLinkAt(content, i, oldTitle) ==
    LET n == Len(oldTitle)
    IN /\ i + n + 3 <= Len(content)
       /\ SubSeq(content, i, i + 1) = <<"[", "[">>
       /\ ToLower(SubSeq(content, i + 2, i + n + 1)) = ToLower(oldTitle)
       /\ SubSeq(content, i + n + 2, i + n + 3) = <<"]", "]">>

RECURSIVE ExactRewrite(_, _, _, _)
\* content with every wiki-link [[oldTitle]] (ignoring case, the exact title
\* only) rewritten to [[newTitle]]
ExactRewrite(content, i, oldTitle, newTitle) ==
    IF i > Len(content) THEN << >>
    ELSE IF ExactLinkAt(content, i, oldTitle)
    THEN <<"[", "[">> \o newTitle \o <<"]", "]">>
            \o ExactRewrite(content, i + Len(oldTitle) + 4, oldTitle, newTitle)
    ELSE <<content[i]>> \o ExactRewrite(content, i + 1, oldTitle, newTitle)

\* the notes in cursor order (what getAllNotes() returns)
NotesInOrder == CursorSeq(stores, "notes", NoOptions)

\* the step completes updateBacklinksOnNoteRename(oldTitle, newTitle)
RenameDone(oldTitle, newTitle) ==
    /\ last'.n = last.n + 1
    /\ last'.op = "updateBacklinksOnNoteRename"
    /\ last'.oldTitle = oldTitle
    /\ last'.newTitle = newTitle
    /\ last'.result = "ok"

\* C7: when a note titled Old exists and updateBacklinksOnNoteRename(Old, New)
\* runs, every other note's persisted content is its content with every
\* [[Old]] (ignoring case, exact title only) rewritten to [[New]] -- so links
\* to other titles and notes without such a link are unchanged -- and the
\* renamed note keeps its content
C7_RenameRewritesExactLinks ==
    [][\A oldTitle \in OldTitles :
          (RenameDone(oldTitle, TitleNew) /\ Find(NotesInOrder, oldTitle, TRUE) # Null) =>
             /\ DOMAIN Notes' = DOMAIN Notes
             /\ \A n \in DOMAIN Notes :
                   Notes'[n].content =
                      IF n = Find(NotesInOrder, oldTitle, TRUE).id
                      THEN Notes[n].content
                      ELSE ExactRewrite(Notes[n].content, 1, oldTitle, TitleNew)]_vars

----------------------------------------------------------------------------
(* The note editor: the component is mounted for a note and saves it.     *)
(* saveNote awaits the rename propagation before it syncs the note's own  *)
(* tags and backlinks; the state between the two is a state of the store. *)

RECURSIVE Split(_, _)
\* content.split('\n'), with line the characters read since the last '\n'
Split(content, line) ==
    IF content = << >> THEN <<line>>
    ELSE IF Head(content) = "\n" THEN <<line>> \o Split(Tail(content), << >>)
    ELSE Split(Tail(content), Append(line, Head(content)))

\* line.startsWith(prefix)
StartsWith(line, prefix) ==
    Len(line) >= Len(prefix) /\ SubSeq(line, 1, Len(prefix)) = prefix

TitleLimit == 50

UntitledNote == <<"U", "n", "t", "i", "t", "l", "e", "d", " ", "N", "o", "t", "e">>

\* extractTitle(content)
extractTitle(content) ==
    LET lines == Split(content, << >>)
        titleLines == {i \in DOMAIN lines : StartsWith(lines[i], <<"#", " ">>)}
        firstLines == {i \in DOMAIN lines : Trim(lines[i]) # << >>}
    IN IF titleLines # {}
       THEN Trim(SubSeq(lines[SetMin(titleLines)], 3, Len(lines[SetMin(titleLines)])))
       ELSE IF firstLines # {}
       THEN SubSeq(lines[SetMin(firstLines)], 1,
                   IF Len(lines[SetMin(firstLines)]) < TitleLimit
                   THEN Len(lines[SetMin(firstLines)]) ELSE TitleLimit)
       ELSE UntitledNote

\* saveNote(), noteId undefined: create the note, sync its tags and its
\* backlinks, reload it
saveNoteCreate(w, contentToSave, color) ==
    Await(createNote(w, NoteInput(extractTitle(contentToSave), contentToSave),
                     FreshId(w)),
          LAMBDA c :
             Await(syncTagsForNote(c.w, c.value.id, contentToSave, color),
                   LAMBDA t :
                      Await(syncBacklinksForNote(t.w, c.value.id, contentToSave),
                            LAMBDA b : Get(b.w, "notes", c.value.id))))

\* saveNote(), noteId given: updateNote with the new title and content, then
\* updateBacklinksOnNoteRename if the title changed
saveNoteRename(w, noteId, originalTitle, contentToSave) ==
    Await(updateNote(w, noteId,
                     [title |-> extractTitle(contentToSave),
                      content |-> contentToSave, updatedAt |-> w.clock]),
          LAMBDA u :
             IF originalTitle # << >> /\ originalTitle # extractTitle(contentToSave)
             THEN updateBacklinksOnNoteRename(u.w, originalTitle,
                                              extractTitle(contentToSave))
             ELSE Ret(u.w, "ok", Null))

\* saveNote(), noteId given: the sync of the note's own tags and backlinks
saveNoteSync(w, noteId, contentToSave, color) ==
    Await(syncTagsForNote(w, noteId, contentToSave, color),
          LAMBDA t : syncBacklinksForNote(t.w, noteId, contentToSave))

\* the contents the user saves: "# a", "# b", "# ab", "# c\n[[a]]", " "
EditorContents ==
    {<<"#", " ", "a">>, <<"#", " ", "b">>, <<"#", " ", "a", "b">>,
     <<"#", " ", "c", "\n", "[", "[", "a", "]", "]">>, <<" ">>}

\* the editor is mounted without a note
EditorNew ==
    /\ editor.pc = "idle"
    /\ editor' = NewEditor
    /\ UNCHANGED <<db, schema, version, stores, clock, used, procs, search, succ, last>>

\* the editor is mounted for a stored note (the pages pass the id of a note
\* they have loaded): the load effect sets content and originalTitle
EditorOpen(noteId) ==
    /\ editor.pc = "idle"
    /\ noteId \in DOMAIN stores["notes"]
    /\ \E r \in {Get(World, "notes", noteId)} :
          editor' = [NewEditor EXCEPT
                        !.noteId = noteId,
                        !.text = IF r.result = "ok" /\ ~NotFound(r.value)
                                 THEN r.value.content ELSE << >>,
                        !.originalTitle = IF r.result = "ok" /\ ~NotFound(r.value)
                                          THEN r.value.title ELSE << >>]
    /\ UNCHANGED <<db, schema, version, stores, clock, used, procs, search, succ, last>>

\* saveNote(contentToSave) in an editor without a note
SaveNew(contentToSave, color) ==
    /\ Budget
    /\ editor.pc = "idle"
    /\ editor.noteId = NoNote
    /\ Trim(contentToSave) # << >>
    /\ \E r \in {saveNoteCreate(World, contentToSave, color)} :
          /\ SetWorld(r.w)
          /\ editor' = IF r.result = "ok"
                       THEN [editor EXCEPT !.originalTitle = extractTitle(contentToSave),
                                           !.hasUnsavedChanges = FALSE]
                       ELSE editor
          /\ last' = [n |-> last.n + 1, op |-> "saveNote", id |-> NoNote,
                      renamed |-> FALSE, synced |-> TRUE, result |-> r.result]
    /\ UNCHANGED <<db, schema, version, procs, search, succ>>

\* saveNote(contentToSave) in an editor of a note, up to the end of the
\* rename propagation
SaveRename(contentToSave) ==
    /\ Budget
    /\ editor.pc = "idle"
    /\ editor.noteId # NoNote
    /\ Trim(contentToSave) # << >>
    /\ \E r \in {saveNoteRename(World, editor.noteId, editor.originalTitle,
                                contentToSave)} :
          /\ SetWorld(r.w)
          /\ editor' =
                IF r.result # "ok" THEN editor
                ELSE [editor EXCEPT
                         !.pc = "sync", !.content = contentToSave,
                         !.originalTitle =
                             IF @ # << >> /\ @ # extractTitle(contentToSave)
                             THEN extractTitle(contentToSave) ELSE @]
          /\ last' = [n |-> last.n + 1, op |-> "saveNote", id |-> editor.noteId,
                      oldTitle |-> editor.originalTitle,
                      newTitle |-> extractTitle(contentToSave),
                      renamed |-> /\ editor.originalTitle # << >>
                                  /\ editor.originalTitle # extractTitle(contentToSave),
                      synced |-> FALSE, result |-> r.result]
    /\ UNCHANGED <<db, schema, version, procs, search, succ>>

\* saveNote() in an editor of a note, from the end of the rename propagation
SaveSync(color) ==
    /\ editor.pc = "sync"
    /\ \E r \in {saveNoteSync(World, editor.noteId, editor.content, color)} :
          /\ SetWorld(r.w)
          /\ last' = [last EXCEPT !.synced = TRUE, !.result = r.result]
          /\ editor' = [editor EXCEPT
                           !.pc = "idle", !.content = << >>,
                           !.hasUnsavedChanges = IF r.result = "ok" THEN FALSE ELSE @]
    /\ UNCHANGED <<db, schema, version, procs, search, succ>>

NextEditor ==
    \/ Initialize
    \/ EditorNew
    \/ \E noteId \in AllIds : EditorOpen(noteId)
    \/ \E contentToSave \in EditorContents, color \in TagColors :
          SaveNew(contentToSave, color)
    \/ \E contentToSave \in EditorContents : SaveRename(contentToSave)
    \/ \E color \in TagColors : SaveSync(color)

SpecEditor == InitStore /\ [][NextEditor]_vars

----------------------------------------------------------------------------
(* Claims about the rename as the editor runs it *)

\* content holds the wiki-link [[oldTitle]] (ignoring case, the exact title)
HasExactLink(content, oldTitle) ==
    \E i \in 1 .. Len(content) : ExactLinkAt(content, i, oldTitle)

\* the step is saveNote renaming the note from its title up to the end of the
\* rename propagation
RenamePropagated ==
    /\ last'.n = last.n + 1
    /\ last'.op = "saveNote"
    /\ last'.renamed
    /\ last'.result = "ok"
    /\ last'.id \in DOMAIN Notes
    /\ Notes[last'.id].title = last'.oldTitle

\* C8: after a note has been renamed from Old to New and the rename
\* propagation has completed (updateNote with the new title, then
\* updateBacklinksOnNoteRename(Old, New)), every other note whose content
\* contained [[Old]] has an outgoing Backlink whose targetNoteId is the
\* renamed note's id
C8_RenameKeepsLinksToRenamedNote ==
    [][RenamePropagated =>
          \A y \in DOMAIN Notes \ {last'.id} :
             HasExactLink(Notes[y].content, last'.oldTitle) =>
                \E b \in DOMAIN Backlinks' :
                   /\ Backlinks'[b].sourceNoteId = y
                   /\ Backlinks'[b].targetNoteId = last'.id]_vars

----------------------------------------------------------------------------
(* The facade's note query driven call by call: notes that differ in tags, *)
(* flags and text, and getAllNotes with its filters                        *)

TagX == 11
TagY == 12

\* the notes the callers create: pinned "a" tagged X; "ab" with content "B"
\* tagged X and Y; pinned and archived "b" without tags
FilterNoteInputs ==
    {[NoteInput(TitleA, <<"a">>) EXCEPT !.tags = <<TagX>>, !.isPinned = TRUE],
     [NoteInput(TitleB, <<"B">>) EXCEPT !.tags = <<TagX, TagY>>],
     [NoteInput(TitleNew, <<"b">>) EXCEPT !.isPinned = TRUE, !.isArchived = TRUE]}

\* the options passed to getAllNotes: each filter given or not, with and
\* without a page limit
FilterQueries ==
    {[NoNoteOptions EXCEPT !.tags = t, !.isArchived = a, !.isPinned = p,
                           !.searchTerm = q, !.limit = l] :
        t \in {<< >>, <<TagY, TagX>>}, a \in {"undefined", "true", "false"},
        p \in {"undefined", "true", "false"}, q \in {<< >>, <<"B">>},
        l \in {0, MaxLimit - 1}}

NextFilter ==
    \/ Initialize
    \/ \E noteData \in FilterNoteInputs, id \in NoteIds : CreateNoteCall(noteData, id)
    \/ \E options \in FilterQueries : GetAllNotesCall(options)

SpecFilter == InitStore /\ [][NextFilter]_vars

----------------------------------------------------------------------------
(* Claims about the note query *)

\* the page the store returns for the options of a note query
StorePage(options) ==
    GetAll(World, "notes",
           [NoOptions EXCEPT !.limit = options.limit,
                             !.direction = IF options.direction = "undefined"
                                           THEN "next" ELSE options.direction]).value

\* note shares a tag id with options.tags, when that is not empty
TagsMatch(note, options) ==
    options.tags = << >>
       \/ \E i \in DOMAIN options.tags, j \in DOMAIN note.tags :
             options.tags[i] = note.tags[j]

\* note has the flags the options give
FlagsMatch(note, options) ==
    /\ options.isArchived = "true" => note.isArchived
    /\ options.isArchived = "false" => ~note.isArchived
    /\ options.isPinned = "true" => note.isPinned
    /\ options.isPinned = "false" => ~note.isPinned

\* t occurs in s, ignoring case
OccursIn(t, s) ==
    \E i \in 1 .. (Len(s) - Len(t) + 1) :
       ToLower(SubSeq(s, i, i + Len(t) - 1)) = ToLower(t)

\* note contains the search term in title or content, when one is given
TextMatch(note, options) ==
    options.searchTerm = << >>
       \/ OccursIn(options.searchTerm, note.title)
       \/ OccursIn(options.searchTerm, note.content)

\* C11: getAllNotes returns exactly the notes of the store's page that share
\* a tag id with options.tags (when non-empty), have the given isArchived and
\* isPinned (when given) and contain the search term ignoring case (when
\* given), in the page's order
C11_FiltersConjunctive ==
    (last.op = "getAllNotes" /\ last.result = "ok") =>
        last.value =
            SelectSeq(StorePage(last.options),
                      LAMBDA note : /\ TagsMatch(note, last.options)
                                    /\ FlagsMatch(note, last.options)
                                    /\ TextMatch(note, last.options))

\* a query giving a tag and isPinned has dropped a note of the page that
\* passes one of the two filters only, and kept another
C11_Witness ==
    /\ last.op = "getAllNotes"
    /\ last.result = "ok"
    /\ last.options.tags # << >>
    /\ last.options.isPinned = "true"
    /\ last.value # << >>
    /\ \E i \in DOMAIN StorePage(last.options) :
          /\ TagsMatch(StorePage(last.options)[i], last.options)
          /\ ~StorePage(last.options)[i].isPinned
    /\ Len(last.value) < Len(StorePage(last.options))

----------------------------------------------------------------------------
(* The facade's tag records driven call by call *)

\* the tags the callers ask for: names "a", "A" and "b", with and without
\* a color
TagInputs ==
    {[name |-> nm, color |-> c] :
        nm \in {<<"a">>, <<"A">>, <<"b">>}, c \in {"", "#ef4444"}}

CreateTagCall(tagData) ==
    /\ Budget
    /\ \E r \in {createTag(World, tagData, FreshId(World))} :
          /\ SetWorld(r.w)
          /\ last' = [n |-> last.n + 1, op |-> "createTag", tagData |-> tagData,
                      result |-> r.result, value |-> r.value]
    /\ UNCHANGED <<db, schema, version, procs, editor, search, succ>>

NextTagNames ==
    \/ Initialize
    \/ Close
    \/ \E tagData \in TagInputs : CreateTagCall(tagData)
    \/ \E id \in AllIds : DeleteTagCall(id)

SpecTagNames == InitStore /\ [][NextTagNames]_vars

----------------------------------------------------------------------------
(* Claims about tag names *)

\* the ids of the Tag records of st named name
Named(st, name) == {t \in DOMAIN st : st[t].name = name}

\* C12: createTag with a name a Tag already has returns that Tag's id and
\* leaves the Tag records as they were (the one record of that name
\* unchanged, whatever the call's other arguments); in any case exactly one
\* Tag has the name afterwards
C12_CreateTagIdempotent ==
    [][\A tagData \in TagInputs :
          (/\ last'.n = last.n + 1
           /\ last'.op = "createTag"
           /\ last'.tagData = tagData
           /\ last'.result = "ok") =>
             /\ Cardinality(Named(Tags', tagData.name)) = 1
             /\ last'.value.id \in Named(Tags', tagData.name)
             /\ Named(Tags, tagData.name) # {} =>
                   /\ last'.value.id \in Named(Tags, tagData.name)
                   /\ Tags' = Tags]_vars

\* a later createTag that asked for another color got the existing Tag
C12_Witness ==
    /\ last.op = "createTag"
    /\ last.result = "ok"
    /\ last.tagData.color # ""
    /\ last.value.color # last.tagData.color
    /\ last.value.id \in DOMAIN Tags
    /\ Tags[last.value.id].sync.version = 1

\* C13: no two Tag records have names equal ignoring case
C13_TagNamesUniqueIgnoringCase ==
    \A t, u \in DOMAIN Tags :
       ToLower(Tags[t].name) = ToLower(Tags[u].name) => t = u

----------------------------------------------------------------------------
(* Claims about the tag sync *)

\* the positions of content where a hashtag starts
HashtagStarts(content) ==
    {i \in 1 .. Len(content) - 1 : content[i] = "#" /\ content[i + 1] \in TagChars}

\* the lowercased name of the hashtag that starts at i: the longest run of
\* tag characters after the '#'
HashtagAt(content, i) ==
    LET e == CHOOSE e \in (i + 1) .. Len(content) :
                /\ \A k \in (i + 1) .. e : content[k] \in TagChars
                /\ e = Len(content) \/ content[e + 1] \notin TagChars
    IN ToLower(SubSeq(content, i + 1, e))

\* the distinct lowercased hashtag names of content in order of first
\* appearance
DistinctHashtags(content) ==
    LET first == {i \in HashtagStarts(content) :
                     \A j \in HashtagStarts(content) :
                        j < i => HashtagAt(content, j) # HashtagAt(content, i)}
        ord == SortAsc(first)
    IN [k \in DOMAIN ord |-> HashtagAt(content, ord[k])]

\* C14: after syncTagsForNote(n, content) on an existing note, the note's
\* tags array is the list of the ids of the Tags named by the distinct
\* lowercased hashtags of content, in order of first appearance, one entry
\* per name, and nothing else
C14_SyncTagsReplaces ==
    [][\A n \in NoteIds, content \in TagContents :
          (CallDone("syncTagsForNote", n) /\ last'.content = content) =>
             /\ n \in DOMAIN Notes'
             /\ Len(Notes'[n].tags) = Len(DistinctHashtags(content))
             /\ \A k \in DOMAIN Notes'[n].tags :
                   /\ Notes'[n].tags[k] \in DOMAIN Tags'
                   /\ Tags'[Notes'[n].tags[k]].name = DistinctHashtags(content)[k]]_vars

\* a note that had two tags was synced with "#a #A" and has one entry
C14_Witness ==
    /\ last.op = "syncTagsForNote"
    /\ last.result = "ok"
    /\ last.content = <<"#", "a", " ", "#", "A">>
    /\ Len(Notes[last.id].tags) = 1
    /\ Cardinality(DOMAIN Tags) = 2
    /\ Notes[last.id].sync.version > 2

----------------------------------------------------------------------------
(* The link resolution driven call by call: notes titled "a", "ab" and    *)
(* "b" stored in any order, links to them and to no note                  *)

\* the notes the callers create
ResolveNotes ==
    {NoteInput(TitleA, <<"a">>), NoteInput(TitleB, <<"a">>),
     NoteInput(TitleNew, <<"a">>)}

\* the contents passed to syncBacklinksForNote: "a", "[[A]]" and
\* "[[a]][[ b ]] [[c]]"
ResolveContents ==
    {<<"a">>, <<"[", "[", "A", "]", "]">>,
     <<"[", "[", "a", "]", "]", "[", "[", " ", "b", " ", "]", "]", " ",
       "[", "[", "c", "]", "]">>}

\* the titles looked up: "A", "b" and "c"
ResolveTitles == {<<"A">>, <<"b">>, <<"c">>}

FindNoteCall(title) ==
    /\ Budget
    /\ \E r \in {findNoteByTitle(World, title)} :
          /\ SetWorld(r.w)
          /\ last' = [n |-> last.n + 1, op |-> "findNoteByTitle", title |-> title,
                      result |-> r.result, value |-> r.value]
    /\ UNCHANGED <<db, schema, version, procs, editor, search, succ>>

GetBacklinksCall(noteId) ==
    /\ Budget
    /\ \E r \in {getBacklinksForNote(World, noteId)} :
          /\ SetWorld(r.w)
          /\ last' = [n |-> last.n + 1, op |-> "getBacklinksForNote", id |-> noteId,
                      result |-> r.result, value |-> r.value]
    /\ UNCHANGED <<db, schema, version, procs, editor, search, succ>>

NextResolve ==
    \/ Initialize
    \/ \E noteData \in ResolveNotes, id \in NoteIds : CreateNoteCall(noteData, id)
    \/ \E id \in NoteIds, content \in ResolveContents : SyncBacklinksCall(id, content)
    \/ \E title \in ResolveTitles : FindNoteCall(title)
    \/ \E id \in NoteIds : GetBacklinksCall(id)

SpecResolve == InitStore /\ [][NextResolve]_vars

----------------------------------------------------------------------------
(* Claims about the backlink sync and the link resolution *)

\* the wiki-link occurrences of content: <<i, e>> with "[[" at i, "]]"
\* ending at e and no "]" between
LinkSpans(content) ==
    {sp \in (1 .. Len(content)) \X (1 .. Len(content)) :
        /\ sp[2] >= sp[1] + 4
        /\ content[sp[1]] = "[" /\ content[sp[1] + 1] = "["
        /\ content[sp[2] - 1] = "]" /\ content[sp[2]] = "]"
        /\ \A k \in (sp[1] + 2) .. (sp[2] - 2) : content[k] # "]"}

\* the title a wiki-link occurrence names
SpanTitle(content, sp) == Trim(SubSeq(content, sp[1] + 2, sp[2] - 2))

\* the notes titled title ignoring case, and those whose title contains it
ExactMatches(title) ==
    {k \in DOMAIN Notes : ToLower(Notes[k].title) = ToLower(title)}

PartialMatches(title) == {k \in DOMAIN Notes : OccursIn(title, Notes[k].title)}

\* the id of the note a link title resolves to (the first in store order),
\* or 0 when it resolves to none
Resolved(title) ==
    IF ExactMatches(title) # {} THEN SetMin(ExactMatches(title))
    ELSE IF PartialMatches(title) # {} THEN SetMin(PartialMatches(title))
    ELSE 0

\* the rows of st whose source is note n
Outgoing(st, n) == {b \in DOMAIN st : st[b].sourceNoteId = n}

\* C15: after syncBacklinksForNote(n, content) the Backlink rows with
\* sourceNoteId = n correspond one-to-one to the wiki-link occurrences of
\* content whose title resolves to a note: each is a 'wiki' row to the
\* resolved note with the occurrence's start / end offsets; content without
\* wiki-links leaves no outgoing row
C15_SyncRowsMatchLinks ==
    [][\A n \in NoteIds, content \in ResolveContents :
          (CallDone("syncBacklinksForNote", n) /\ last'.content = content) =>
             LET spans == {sp \in LinkSpans(content) :
                              Resolved(SpanTitle(content, sp)) # 0}
             IN /\ Cardinality(Outgoing(Backlinks', n)) = Cardinality(spans)
                /\ \A sp \in spans :
                      \E b \in Outgoing(Backlinks', n) :
                         /\ Backlinks'[b].linkType = "wiki"
                         /\ Backlinks'[b].targetNoteId =
                               Resolved(SpanTitle(content, sp))
                         /\ Backlinks'[b].position =
                               [start |-> sp[1] - 1, end |-> sp[2]]]_vars

\* a note that had an outgoing row was synced with content that has three
\* links of which two resolve
C15_Witness ==
    /\ last.op = "syncBacklinksForNote"
    /\ last.result = "ok"
    /\ Cardinality(LinkSpans(last.content)) = 3
    /\ Cardinality(Outgoing(Backlinks, last.id)) = 2
    /\ \E b \in Outgoing(Backlinks, last.id) : b > MaxNotes + 2

\* C16: findNoteByTitle returns a note titled the link title ignoring case
\* whenever one exists, wherever it is stored; only when none exists the
\* first note whose title contains it; and no note when neither exists, in
\* which case syncBacklinksForNote creates no Backlink for that link
C16_ExactTitleFirst ==
    [][/\ \A title \in ResolveTitles :
             (/\ last'.n = last.n + 1
              /\ last'.op = "findNoteByTitle"
              /\ last'.title = title
              /\ last'.result = "ok") =>
                 IF ExactMatches(title) # {}
                 THEN last'.value # Null /\ last'.value.id \in ExactMatches(title)
                 ELSE IF PartialMatches(title) # {}
                 THEN last'.value # Null
                         /\ last'.value.id = SetMin(PartialMatches(title))
                 ELSE last'.value = Null
       /\ \A n \in NoteIds, content \in ResolveContents :
             (CallDone("syncBacklinksForNote", n) /\ last'.content = content) =>
                \A sp \in LinkSpans(content) :
                   (/\ ExactMatches(SpanTitle(content, sp)) = {}
                    /\ PartialMatches(SpanTitle(content, sp)) = {}) =>
                       \A b \in Outgoing(Backlinks', n) :
                          Backlinks'[b].position # [start |-> sp[1] - 1,
                                                    end |-> sp[2]]]_vars

\* the exact title was found although a note whose title only contains the
\* link title is stored before it
C16_Witness ==
    /\ last.op = "findNoteByTitle"
    /\ last.result = "ok"
    /\ last.value # Null
    /\ last.value.id \in ExactMatches(last.title)
    /\ \E k \in PartialMatches(last.title) \ ExactMatches(last.title) :
          k < last.value.id

\* C17: getBacklinksForNote(n) returns exactly the Backlink rows whose
\* sourceNoteId or targetNoteId is n, each row once
C17_BacklinksEachOnce ==
    (last.op = "getBacklinksForNote" /\ last.result = "ok") =>
        /\ {last.value[i].id : i \in DOMAIN last.value} =
              {b \in DOMAIN Backlinks :
                  \/ Backlinks[b].sourceNoteId = last.id
                  \/ Backlinks[b].targetNoteId = last.id}
        /\ \A i \in DOMAIN last.value : last.value[i] = Backlinks[last.value[i].id]
        /\ \A i, j \in DOMAIN last.value :
              last.value[i].id = last.value[j].id => i = j

----------------------------------------------------------------------------
(* The Entity Store opened by successive releases: the database BrainStorage *)
(* created is opened again with a configuration of the next version         *)

\* a DatabaseConfig of the next version: BrainStorage's stores with an index
\* on title added to 'notes' and a new store 'attachments'
UpgradedConfig ==
    [version |-> ConfigVersion + 1,
     stores |-> [notes |-> [createdAt |-> Config.notes.createdAt,
                            updatedAt |-> Config.notes.updatedAt,
                            isArchived |-> Config.notes.isArchived,
                            isPinned |-> Config.notes.isPinned,
                            tags |-> Config.notes.tags,
                            title |-> [keyPath |-> "title", unique |-> FALSE]],
                 tags |-> Config.tags,
                 backlinks |-> Config.backlinks,
                 attachments |-> [noteId |-> [keyPath |-> "noteId",
                                              unique |-> FALSE]]]]

\* the configurations an IndexedDBStorage is constructed with
Configs == {DatabaseConfig, UpgradedConfig}

NextUpgrade ==
    \/ \E config \in Configs : OpenDatabase(config)
    \/ Close
    \/ \E data \in DataItems, id \in NoteIds : CreateCall(data, id)
    \/ \E id \in NoteIds : DeleteCall(id)

SpecUpgrade == InitStore /\ [][NextUpgrade]_vars

----------------------------------------------------------------------------
(* Claims about opening the store *)

\* C18: after initialize succeeds with a requested version greater than the
\* stored one, every configured collection and every configured index of it
\* exists, an index added to a collection of the stored schema included
C18_UpgradeCreatesConfigured ==
    [][\A config \in Configs :
          (/\ last'.n = last.n + 1
           /\ last'.op = "initialize"
           /\ last'.requested = config.version
           /\ last'.result = "ok"
           /\ version < config.version) =>
              \A s \in DOMAIN config.stores :
                 /\ s \in DOMAIN schema'
                 /\ \A i \in DOMAIN config.stores[s] : i \in DOMAIN schema'[s]]_vars

-----------------------------------------------------------------------------
(* The life cycle of the storage singleton: every raising operation of the
   entity store, called on the singleton at any point between
   initializeStorage, close and cleanupStorage *)

\* cleanupStorage(): closes the instance and forgets it; the next
\* getStorage() constructs an instance whose connection is null
CleanupStorage ==
    /\ Budget
    /\ db' = "null"
    /\ last' = [n |-> last.n + 1, op |-> "cleanupStorage", result |-> "ok"]
    /\ UNCHANGED <<schema, version, stores, clock, used, procs, editor, search, succ>>

GetCall(id) ==
    /\ Budget
    /\ \E r \in {Get(World, "notes", id)} :
          /\ SetWorld(r.w)
          /\ last' = [n |-> last.n + 1, op |-> "get", id |-> id,
                      result |-> r.result, value |-> r.value]
    /\ UNCHANGED <<db, schema, version, procs, editor, search, succ>>

ClearCall ==
    /\ Budget
    /\ \E r \in {Clear(World, "notes")} :
          /\ SetWorld(r.w)
          /\ last' = [n |-> last.n + 1, op |-> "clear", result |-> r.result]
    /\ UNCHANGED <<db, schema, version, procs, editor, search, succ>>

GetStatsCall ==
    /\ Budget
    /\ \E r \in {GetStats(World)} :
          /\ SetWorld(r.w)
          /\ last' = [n |-> last.n + 1, op |-> "getStats",
                      result |-> r.result, value |-> r.value]
    /\ UNCHANGED <<db, schema, version, procs, editor, search, succ>>

NextLifecycle ==
    \/ Initialize
    \/ Close
    \/ CleanupStorage
    \/ \E data \in DataItems, id \in NoteIds : CreateCall(data, id)
    \/ \E id \in NoteIds : GetCall(id)
    \/ GetAllCall(NoOptions)
    \/ \E id \in NoteIds, updates \in DataPartials : UpdateCall(id, updates)
    \/ \E id \in NoteIds : DeleteCall(id)
    \/ ClearCall
    \/ GetStatsCall

SpecLifecycle == InitStore /\ [][NextLifecycle]_vars

RaisingOps == {"create", "get", "getAll", "update", "delete", "clear", "getStats"}

\* C19: a raising operation of the entity store (create, get, getAll, update,
\* delete, clear, getStats) that is invoked while the connection is null,
\* before initialize, after close or after cleanupStorage, fails with
\* DatabaseOpenFailed and leaves every object store as it was
C19_NotOpenFailsUnchanged ==
    [][(last'.n = last.n + 1 /\ last'.op \in RaisingOps /\ db = "null")
          => (last'.result = "DatabaseOpenFailed" /\ stores' = stores)]_vars

\* a clear refused on a closed store that holds a note
C19_Witness ==
    /\ last.op = "clear"
    /\ last.result = "DatabaseOpenFailed"
    /\ version > 0
    /\ db = "null"
    /\ Notes # << >>

-----------------------------------------------------------------------------
(* Bulk creation of Tag records through batchCreate *)

\* one turn of batchCreate's loop: store.add(entity) of the entity built
\* around item, with the id crypto.randomUUID() returns
BatchAdd(w, s, item) ==
    LET entity == NewEntity(item, FreshId(w), w.clock)
        w1 == [w EXCEPT !.clock = @ + 1, !.used = @ \cup {entity.id}]
    IN IF UniqueOk(w.stores, s, entity)
       THEN Ret([w1 EXCEPT !.stores = PutRecord(@, s, entity)], "ok", entity)
       ELSE Ret(w1, "ConstraintError", Null)

RECURSIVE BatchLoop(_, _, _, _, _)
\* for (const item of items) { ...; results.push(entity) }: the first
\* rejected add leaves the loop, and results with it
BatchLoop(w, s, items, i, results) ==
    IF i > Len(items) THEN Ret(w, "ok", results)
    ELSE Await(BatchAdd(w, s, items[i]),
               LAMBDA r : BatchLoop(r.w, s, items, i + 1, Append(results, r.value)))

\* batchCreate(storeName, items): the call always resolves, to a
\* StorageResult. All adds go through one
\* readwrite transaction and the error of a rejected add is not
\* prevented, so the transaction aborts and the earlier adds are undone
BatchCreate(w, s, items) ==
    IF db = "null"
    THEN Ret(w, "ok", [success |-> FALSE, error |-> "Database not initialized"])
    ELSE CHOOSE y \in
           {IF r.result = "ok"
            THEN Ret(r.w, "ok", [success |-> TRUE, data |-> r.value])
            ELSE Ret([r.w EXCEPT !.stores = w.stores], "ok",
                     [success |-> FALSE, error |-> r.result])
              : r \in {BatchLoop(w, s, items, 1, << >>)}} : TRUE

\* the items of a batch: tag data named "a" or "b"
BatchData == {[name |-> nm, color |-> "#ef4444"] : nm \in {<<"a">>, <<"b">>}}

\* batches of no, one, two and three items
BatchInputs ==
    {<< >>} \cup {<<x>> : x \in BatchData} \cup {<<x, y>> : x, y \in BatchData}
        \cup {<<x, y, z>> : x, y, z \in BatchData}

BatchCreateCall(items) ==
    /\ Budget
    /\ \E r \in {BatchCreate(World, "tags", items)} :
          /\ SetWorld(r.w)
          /\ last' = [n |-> last.n + 1, op |-> "batchCreate", items |-> items,
                      result |-> r.result, value |-> r.value]
    /\ UNCHANGED <<db, schema, version, procs, editor, search, succ>>

NextBatch ==
    \/ Initialize
    \/ Close
    \/ \E items \in BatchInputs : BatchCreateCall(items)

SpecBatch == InitStore /\ [][NextBatch]_vars

\* the item of the batch at which the first insertion fails, Len(items) + 1
\* when none does: the first item whose name a Tag of st, or an earlier
\* item, already has
FirstFailure(st, items) ==
    SetMin({i \in 1..Len(items) :
               \/ Named(st, items[i].name) # {}
               \/ \E j \in 1..(i - 1) : items[j].name = items[i].name}
           \cup {Len(items) + 1})

\* the result v carries, as its data, one entity for each of the first k
\* items, in their order
CreatedInOrder(v, items, k) ==
    /\ Has(v, "data")
    /\ Len(v.data) = k
    /\ \A i \in 1..k :
          v.data[i].name = items[i].name /\ v.data[i].color = items[i].color
    /\ \A i, j \in 1..k : i # j => v.data[i].id # v.data[j].id

\* C20: batchCreate never raises; its result has success = false when the
\* store is not open or an insertion fails, and otherwise success = true
\* with one created entity per item, in the order of the items; a result
\* that fails after some items were inserted carries those items as data
C20_BatchResultTellsPartial ==
    [][(last'.n = last.n + 1 /\ last'.op = "batchCreate") =>
          LET items == last'.items
              v == last'.value
              k == FirstFailure(Tags, items)
          IN /\ last'.result = "ok"
             /\ v.success = (db # "null" /\ k > Len(items))
             /\ v.success => CreatedInOrder(v, items, Len(items))
             /\ (db # "null" /\ 1 < k /\ k <= Len(items))
                   => CreatedInOrder(v, items, k - 1)]_vars

-----------------------------------------------------------------------------
(* Claims about single records of the Entity Store *)

\* the state the step leads to, as the store operations read it
WorldAfter == [stores |-> stores', clock |-> clock', used |-> used']

\* C21: after a successful create, get of the returned id yields the input
\* fields plus the assigned id, createdAt = updatedAt = the time of the
\* call and sync = {version: 1, isDeleted: false}; the id was not used
\* before, the collection gains that one record and no other record changes
C21_CreateGetRoundTrip ==
    [][(last'.n = last.n + 1 /\ last'.op = "create" /\ last'.result = "ok") =>
          LET id == last'.value.id
              got == Get(WorldAfter, "notes", id)
          IN /\ id \notin used
             /\ got.result = "ok"
             /\ got.value = last'.value
             /\ got.value = Spread(last'.data,
                                   [id |-> id, createdAt |-> clock, updatedAt |-> clock,
                                    sync |-> [version |-> 1, isDeleted |-> FALSE]])
             /\ DOMAIN Notes' = (DOMAIN Notes) \cup {id}
             /\ id \notin DOMAIN Notes
             /\ \A k \in DOMAIN Notes : Notes'[k] = Notes[k]]_vars

\* a successful create into a collection that already held a record
C21_Witness ==
    /\ last.op = "create"
    /\ last.result = "ok"
    /\ Cardinality(DOMAIN Notes) >= 2

-----------------------------------------------------------------------------
(* The global search: GlobalSearch loads the tags when it is mounted and   *)
(* scores every note against the query. Time is counted in days.           *)

RECURSIVE FuzzyLoop(_, _)
\* the loop of fuzzySearch: the characters of query appear in text in order
FuzzyLoop(text, query) ==
    IF query = << >> THEN TRUE
    ELSE IF text = << >> THEN FALSE
    ELSE IF Head(text) = Head(query) THEN FuzzyLoop(Tail(text), Tail(query))
    ELSE FuzzyLoop(Tail(text), query)

\* fuzzySearch(text, query)
fuzzySearch(text, query) ==
    \/ query = << >>
    \/ Includes(ToLower(text), ToLower(query))
    \/ FuzzyLoop(ToLower(text), ToLower(query))

\* tags.find(t => t.id === tagId): its name, '' when there is none
TagNameIn(tags, tagId) ==
    LET found == SelectSeq(tags, LAMBDA t : t.id = tagId)
    IN IF found = << >> THEN << >> ELSE found[1].name

\* note.tags.map(...).filter(Boolean)
noteTagNames(note, tags) ==
    SelectSeq([i \in DOMAIN note.tags |-> TagNameIn(tags, note.tags[i])],
              LAMBDA nm : Len(nm) > 0)

RecencyDays == 10

\* calculateScore(note, query, tags), with now the value of Date.now()
calculateScore(note, query, tags, now) ==
    IF Trim(query) = << >> THEN Null
    ELSE LET queryLower == ToLower(query)
             names == noteTagNames(note, tags)
             title == fuzzySearch(note.title, query)
             content == fuzzySearch(note.content, query)
             tagged == \E i \in DOMAIN names : fuzzySearch(names[i], query)
             score ==
                 (IF title
                  THEN 100 + (IF Includes(ToLower(note.title), queryLower)
                              THEN 50 ELSE 0)
                  ELSE 0)
               + (IF content
                  THEN 50 + (IF Includes(ToLower(note.content), queryLower)
                             THEN 25 ELSE 0)
                  ELSE 0)
               + (IF tagged
                  THEN 75 + (IF \E i \in DOMAIN names :
                                   Includes(ToLower(names[i]), queryLower)
                             THEN 30 ELSE 0)
                  ELSE 0)
               + Max(0, RecencyDays - (now - note.updatedAt))
         IN IF score > 0
            THEN [note |-> note, score |-> score,
                  matches |-> [title |-> title, content |-> content, tags |-> tagged]]
            ELSE Null

RECURSIVE ScoreLoop(_, _, _, _)
\* for (const note of allNotes) { ...; if (result) searchResults.push(result) }
ScoreLoop(notes, query, tags, now) ==
    IF notes = << >> THEN << >>
    ELSE LET result == calculateScore(Head(notes), query, tags, now)
         IN (IF Has(result, "null") THEN << >> ELSE <<result>>)
               \o ScoreLoop(Tail(notes), query, tags, now)

RECURSIVE SortByScore(_)
\* searchResults.sort((a, b) => b.score - a.score): stable, highest first
SortByScore(results) ==
    IF results = << >> THEN << >>
    ELSE LET top == SetMax({results[i].score : i \in DOMAIN results})
         IN SelectSeq(results, LAMBDA r : r.score = top)
               \o SortByScore(SelectSeq(results, LAMBDA r : r.score # top))

\* performSearch(searchQuery): what setResults receives
performSearch(w, searchQuery, allTags, now) ==
    IF db = "null" \/ Trim(searchQuery) = << >> THEN << >>
    ELSE CHOOSE y \in
           {IF r.result = "ok"
            THEN SortByScore(ScoreLoop(r.value, searchQuery, allTags, now))
            ELSE << >> : r \in {getAllNotes(w, NoNoteOptions)}} : TRUE

\* the notes the search runs over: one that holds "a" and "b", one that does not
SearchNotes ==
    {NoteInput(<<"a">>, <<"a", "x", "b">>), NoteInput(<<"x">>, <<"x">>)}

\* the queries typed: "a", "Ab", "b" and a blank one
SearchQueries == {<<"a">>, <<"A", "b">>, <<"b">>, <<" ">>}

\* the contents the tags are synchronised from
SearchTagContents == {<<"#", "b">>}

\* the component is mounted (a page is opened)
MountSearch ==
    /\ Budget
    /\ search' = NewSearch
    /\ last' = [n |-> last.n + 1, op |-> "mountSearch", result |-> "ok"]
    /\ UNCHANGED <<db, schema, version, stores, clock, used, procs, editor, succ>>

\* the effect that loads the tags once storage is initialized: it runs
\* once for each mount
LoadTags ==
    /\ Budget
    /\ db # "null"
    /\ ~search.loaded
    /\ \E r \in {GetAll(World, "tags", NoOptions)} :
          /\ search' = [search EXCEPT !.allTags = r.value, !.loaded = TRUE]
          /\ last' = [n |-> last.n + 1, op |-> "getAllTags", result |-> r.result]
    /\ UNCHANGED <<db, schema, version, stores, clock, used, procs, editor, succ>>

\* the debounced effect runs performSearch(query) at time now
SearchCall(query, now) ==
    /\ Budget
    /\ \E results \in {performSearch(World, query, search.allTags, now)} :
          /\ search' = [search EXCEPT !.results = results]
          /\ last' = [n |-> last.n + 1, op |-> "search", query |-> query,
                      now |-> now, result |-> "ok", value |-> results]
    /\ UNCHANGED <<db, schema, version, stores, clock, used, procs, editor, succ>>

NextSearch ==
    \/ Initialize
    \/ MountSearch
    \/ LoadTags
    \/ \E noteData \in SearchNotes, id \in NoteIds : CreateNoteCall(noteData, id)
    \/ \E id \in NoteIds, content \in SearchTagContents :
          SyncTagsCall(id, content, DefaultColor)
    \/ \E query \in SearchQueries, age \in {0, RecencyDays} :
          SearchCall(query, clock + age)

SpecSearch == InitStore /\ [][NextSearch]_vars

-----------------------------------------------------------------------------
(* Claims about the global search *)

\* the characters of query appear in text in order, ignoring case
Subsequence(query, text) ==
    \E f \in [1 .. Len(query) -> 1 .. Len(text)] :
       /\ \A i, j \in 1 .. Len(query) : i < j => f[i] < f[j]
       /\ \A i \in 1 .. Len(query) : LowerChar(text[f[i]]) = LowerChar(query[i])

\* substring or subsequence-in-order match
FuzzyMatch(query, text) == OccursIn(query, text) \/ Subsequence(query, text)

\* the names of the Tag records the note is associated with
TagNamesOf(note) ==
    {Tags[t].name : t \in {note.tags[i] : i \in DOMAIN note.tags} \cap DOMAIN Tags}

\* base when one of texts fuzzy-matches, plus bonus when one holds the query
Weight(query, texts, base, bonus) ==
    IF \E t \in texts : FuzzyMatch(query, t)
    THEN base + (IF \E t \in texts : OccursIn(query, t) THEN bonus ELSE 0)
    ELSE 0

\* the score the note has for the query at time now
SearchScore(note, query, now) ==
    Weight(query, {note.title}, 100, 50)
       + Weight(query, {note.content}, 50, 25)
       + Weight(query, TagNamesOf(note), 75, 30)
       + Max(0, 10 - (now - note.updatedAt))

\* C23: for a non-blank query the search lists exactly the notes whose score
\* is not 0, each with the score 100 (+50) for the title, 50 (+25) for the
\* content, 75 (+30) for the names of its tags and max(0, 10 - days since
\* the last update), in non-increasing order of score
C23_SearchScore ==
    (last.op = "search" /\ Trim(last.query) # << >>) =>
       LET res == last.value
       IN /\ \A i \in DOMAIN res :
                /\ res[i].note.id \in DOMAIN Notes
                /\ res[i].note = Notes[res[i].note.id]
                /\ res[i].score = SearchScore(res[i].note, last.query, last.now)
          /\ \A id \in DOMAIN Notes :
                SearchScore(Notes[id], last.query, last.now) > 0
                   => \E i \in DOMAIN res : res[i].note.id = id
          /\ \A i, j \in DOMAIN res :
                /\ i < j => res[i].score >= res[j].score
                /\ i # j => res[i].note.id # res[j].note.id

\* C30: every note the search returns for a non-blank query matches the
\* query in its title, its content or the name of one of its tags, and
\* one of the result's match flags is true
C30_ResultsMatchQuery ==
    (last.op = "search" /\ Trim(last.query) # << >>) =>
       \A i \in DOMAIN last.value :
          LET r == last.value[i]
          IN /\ r.matches.title \/ r.matches.content \/ r.matches.tags
             /\ \/ FuzzyMatch(last.query, r.note.title)
                \/ FuzzyMatch(last.query, r.note.content)
                \/ \E nm \in TagNamesOf(r.note) : FuzzyMatch(last.query, nm)

-----------------------------------------------------------------------------
(* The note editor as the user drives it: typing calls handleContentChange; *)
(* saveNote is called by handleManualSave only, from the Save button and    *)
(* from Ctrl/Cmd+S, and both require SaveEnabled. The component sets no     *)
(* timer.                                                                   *)

\* handleContentChange(newContent): setContent(newContent)
HandleContentChange(newContent) ==
    /\ Budget
    /\ editor' = [editor EXCEPT !.text = newContent]
    /\ last' = [n |-> last.n + 1, op |-> "contentChange", content |-> newContent,
                result |-> "ok"]
    /\ UNCHANGED <<db, schema, version, stores, clock, used, procs, search, succ>>

\* the isSaving state: a saveNote call is in flight
isSaving == editor.pc # "idle"

\* the Save button is not disabled, and Ctrl/Cmd+S calls handleManualSave
SaveEnabled == ~isSaving /\ editor.hasUnsavedChanges

NextAutosave ==
    \/ Initialize
    \/ \E id \in NoteIds : CreateNoteCall(NoteInput(TitleA, <<"a">>), id)
    \/ EditorNew
    \/ \E noteId \in AllIds : EditorOpen(noteId)
    \/ \E newContent \in EditorContents : HandleContentChange(newContent)

\* every step the editor and the pages can take is taken eventually: more
\* than the scheduling guarantees, so what fails here fails without it
SpecAutosave == InitStore /\ [][NextAutosave]_vars /\ WF_vars(NextAutosave)

\* the step is the user changing the content to a non-blank value
ChangedToNonBlank ==
    /\ last'.n = last.n + 1
    /\ last'.op = "contentChange"
    /\ Trim(last'.content) # << >>

\* C24: after the user changes the content to a non-blank value the editor
\* has unsaved changes and the manual save is enabled, and a save of that
\* content eventually happens without further user action
C24_AutosaveAfterChange ==
    /\ [][ChangedToNonBlank => (editor'.hasUnsavedChanges /\ SaveEnabled')]_vars
    /\ \A c \in EditorContents :
          (last.op = "contentChange" /\ last.content = c /\ Trim(c) # << >>)
             ~> (\E id \in DOMAIN Notes : Notes[id].content = c)

-----------------------------------------------------------------------------
(* The backlinks panel: the incoming links of a note *)

RECURSIVE IncomingLoop(_, _, _)
\* for (const backlink of backlinks): getNote(backlink.sourceNoteId), and
\* push { sourceNote, backlink } when the note exists
IncomingLoop(w, backlinks, result) ==
    IF backlinks = << >> THEN Ret(w, "ok", result)
    ELSE Await(Get(w, "notes", Head(backlinks).sourceNoteId),
               LAMBDA r :
                  IncomingLoop(w, Tail(backlinks),
                               IF NotFound(r.value) THEN result
                               ELSE Append(result, [sourceNote |-> r.value,
                                                    backlink |-> Head(backlinks)])))

\* getIncomingBacklinks(noteId)
getIncomingBacklinks(w, noteId) ==
    Await(getBacklinksForNote(w, noteId),
          LAMBDA r : IncomingLoop(w, r.value, << >>))

IncomingCall(noteId) ==
    /\ Budget
    /\ \E r \in {getIncomingBacklinks(World, noteId)} :
          /\ SetWorld(r.w)
          /\ last' = [n |-> last.n + 1, op |-> "getIncomingBacklinks", id |-> noteId,
                      result |-> r.result, value |-> r.value]
    /\ UNCHANGED <<db, schema, version, procs, editor, search, succ>>

NextIncoming ==
    \/ Initialize
    \/ \E noteData \in ResolveNotes, id \in NoteIds : CreateNoteCall(noteData, id)
    \/ \E id \in NoteIds, content \in ResolveContents : SyncBacklinksCall(id, content)
    \/ \E id \in NoteIds : IncomingCall(id)

SpecIncoming == InitStore /\ [][NextIncoming]_vars

\* C25: every entry getIncomingBacklinks(n) returns is an incoming link: its
\* backlink is a stored row with targetNoteId = n and its sourceNote is the
\* stored note backlink.sourceNoteId; a row whose sourceNoteId is n is
\* returned only when it targets n too
C25_IncomingOnly ==
    (last.op = "getIncomingBacklinks" /\ last.result = "ok") =>
        \A i \in DOMAIN last.value :
           LET e == last.value[i]
           IN /\ e.backlink.id \in DOMAIN Backlinks
              /\ e.backlink = Backlinks[e.backlink.id]
              /\ e.backlink.targetNoteId = last.id
              /\ e.backlink.sourceNoteId \in DOMAIN Notes
              /\ e.sourceNote = Notes[e.backlink.sourceNoteId]

-----------------------------------------------------------------------------
(* Claims about what update and delete leave behind *)

\* C26: update(collection, id, partial) changes only the record stored
\* under id, for every partial record, one that carries an id or createdAt
\* included: the collection keeps its keys, the record under id keeps its
\* id and createdAt, and no record under another key is created or modified
C26_UpdateFrame ==
    [][\A id \in NoteIds :
          UpdateDone(id) =>
             /\ DOMAIN Notes' = DOMAIN Notes
             /\ \A k \in (DOMAIN Notes) \ {id} : Notes'[k] = Notes[k]
             /\ id \in DOMAIN Notes =>
                   /\ Notes'[id].id = id
                   /\ Notes'[id].createdAt = Notes[id].createdAt]_vars

\* C27: once delete(collection, id) has completed no later state holds a
\* record with that id: an update of the id that had read the record before
\* the delete ran does not write it back. Identifiers are never handed out
\* twice, so a used id that is absent has been deleted
C27_DeletedStaysDeleted ==
    [][\A id \in NoteIds :
          /\ (last'.n = last.n + 1 /\ last'.op = "delete" /\ last'.id = id
                  /\ last'.result = "ok") => id \notin DOMAIN Notes'
          /\ (id \in used /\ id \notin DOMAIN Notes) => id \notin DOMAIN Notes']_vars

-----------------------------------------------------------------------------
(* createTag and syncTagsForNote in flight together: each await is a point  *)
(* where another call's transaction can run. A call in flight is a record    *)
(* of procs: the tag names still to resolve, the ids collected, and pc, the  *)
(* request it issues next.                                                   *)

\* createTag(): the Tag passed to create
NewTag(tagData) ==
    Spread(tagData,
           [color |-> OrElse(tagData, "color", "", DefaultColor),
            description |-> OrElse(tagData, "description", "", ""),
            isSystemTag |-> OrElse(tagData, "isSystemTag", FALSE, FALSE)])

\* the call pr once it holds the tag id for the first of its names: createTag
\* returns; syncTagsForNote pushes the id and goes on with its loop
AfterTag(pr, id) ==
    IF pr.op = "createTag" THEN Idle
    ELSE [pr EXCEPT !.tagIds = Append(@, id),
                    !.tagNames = Tail(@),
                    !.pc = IF Tail(pr.tagNames) = << >>
                           THEN "updateNote" ELSE "getTagByName"]

\* what the call pr reports when it completes with result and value
Completed(pr, result, value) ==
    [n |-> last.n + 1, op |-> pr.op, id |-> pr.noteId, names |-> pr.names,
     result |-> result, value |-> value]

\* the tag names the concurrent calls use
ConcTagNames == {<<"a">>, <<"b">>}

\* the contents synchronised: "#a", "#a #b"
ConcTagContents == {<<"#", "a">>, <<"#", "a", " ", "#", "b">>}

\* createTag({name, color}) is called
CreateTagBegin(p, name) ==
    /\ Budget
    /\ procs[p].pc = "idle"
    /\ procs' = [procs EXCEPT ![p] =
                    [pc |-> "createTag", op |-> "createTag", noteId |-> NoNote,
                     names |-> <<name>>, tagNames |-> <<name>>, tagIds |-> << >>]]
    /\ UNCHANGED <<db, schema, version, stores, clock, used, editor, search, succ, last>>

\* syncTagsForNote(noteId, content) is called
SyncTagsBegin(p, noteId, content) ==
    /\ Budget
    /\ procs[p].pc = "idle"
    /\ procs' = [procs EXCEPT ![p] =
                    [pc |-> IF extractTagsFromContent(content) = << >>
                            THEN "updateNote" ELSE "getTagByName",
                     op |-> "syncTagsForNote", noteId |-> noteId,
                     names |-> extractTagsFromContent(content),
                     tagNames |-> extractTagsFromContent(content),
                     tagIds |-> << >>]]
    /\ UNCHANGED <<db, schema, version, stores, clock, used, editor, search, succ, last>>

\* syncTagsForNote: await storage.getTagByName(tagName)
SyncTagsLookup(p) ==
    /\ procs[p].pc = "getTagByName"
    /\ \E r \in {getTagByName(World, Head(procs[p].tagNames))} :
          IF r.result # "ok"
          THEN /\ procs' = [procs EXCEPT ![p] = Idle]
               /\ last' = Completed(procs[p], r.result, Null)
          ELSE /\ procs' = [procs EXCEPT ![p] =
                               IF NotFound(r.value)
                               THEN [@ EXCEPT !.pc = "createTag"]
                               ELSE AfterTag(@, r.value.id)]
               /\ UNCHANGED last
    /\ UNCHANGED <<db, schema, version, stores, clock, used, editor, search, succ>>

\* createTag: the getAll through the name index
CreateTagRead(p) ==
    /\ procs[p].pc = "createTag"
    /\ \E r \in {getTagByName(World, Head(procs[p].tagNames))} :
          /\ procs' = [procs EXCEPT ![p] =
                          IF r.result # "ok" THEN Idle
                          ELSE IF NotFound(r.value) THEN [@ EXCEPT !.pc = "create"]
                          ELSE AfterTag(@, r.value.id)]
          /\ last' = IF r.result # "ok" THEN Completed(procs[p], r.result, Null)
                     ELSE IF ~NotFound(r.value) /\ procs[p].op = "createTag"
                     THEN Completed(procs[p], "ok", r.value.id)
                     ELSE last
    /\ UNCHANGED <<db, schema, version, stores, clock, used, editor, search, succ>>

\* createTag: this.db.create('tags', tag)
CreateTagAdd(p, color) ==
    /\ procs[p].pc = "create"
    /\ \E r \in {Create(World, "tags",
                         NewTag([name |-> Head(procs[p].tagNames), color |-> color]),
                         FreshId(World))} :
          /\ SetWorld(r.w)
          /\ procs' = [procs EXCEPT ![p] =
                          IF r.result # "ok" THEN Idle ELSE AfterTag(@, r.value.id)]
          /\ last' = IF r.result # "ok" THEN Completed(procs[p], r.result, Null)
                     ELSE IF procs[p].op = "createTag"
                     THEN Completed(procs[p], "ok", r.value.id)
                     ELSE last
    /\ UNCHANGED <<db, schema, version, editor, search, succ>>

\* syncTagsForNote: await storage.updateNote(noteId, { tags: tagIds })
SyncTagsUpdateNote(p) ==
    /\ procs[p].pc = "updateNote"
    /\ \E r \in {updateNote(World, procs[p].noteId, [tags |-> procs[p].tagIds])} :
          /\ SetWorld(r.w)
          /\ last' = Completed(procs[p], r.result, procs[p].tagIds)
    /\ procs' = [procs EXCEPT ![p] = Idle]
    /\ UNCHANGED <<db, schema, version, editor, search, succ>>

NextTagRace ==
    \/ Initialize
    \/ \E id \in NoteIds : CreateNoteCall(NoteInput(TitleA, <<"a">>), id)
    \/ \E p \in Procs, name \in ConcTagNames : CreateTagBegin(p, name)
    \/ \E p \in Procs, id \in NoteIds, content \in ConcTagContents :
          SyncTagsBegin(p, id, content)
    \/ \E p \in Procs : SyncTagsLookup(p)
    \/ \E p \in Procs : CreateTagRead(p)
    \/ \E p \in Procs : CreateTagAdd(p, DefaultColor)
    \/ \E p \in Procs : SyncTagsUpdateNote(p)

SpecTagRace == InitStore /\ [][NextTagRace]_vars

\* the step completes a createTag or syncTagsForNote call on an open store,
\* the latter for a stored note
TagCallDone ==
    /\ last'.n = last.n + 1
    /\ last'.op \in {"createTag", "syncTagsForNote"}
    /\ db # "null"
    /\ last'.op = "syncTagsForNote" => last'.id \in DOMAIN Notes

\* C28: under any interleaving of createTag and syncTagsForNote calls that
\* use the same tag name, every state holds at most one Tag of each name,
\* and every such call completes without failing, returning or using the
\* id of the one Tag of the name
C28_ConcurrentTagsOneEach ==
    [][/\ \A name \in ConcTagNames : Cardinality(Named(Tags', name)) <= 1
       /\ TagCallDone =>
             /\ last'.result = "ok"
             /\ last'.op = "createTag" =>
                    last'.value \in Named(Tags', last'.names[1])
             /\ last'.op = "syncTagsForNote" =>
                    \A i \in DOMAIN last'.names :
                       last'.value[i] \in Named(Tags', last'.names[i])]_vars

-----------------------------------------------------------------------------
(* syncBacklinksForNote calls in flight together: the teardown of the old   *)
(* rows and the creation of each new row are separate awaits, so the steps  *)
(* of another call can run between them.                                    *)

\* the contents synchronised concurrently: "[[A]]" and "[[ab]]"
RaceContents ==
    {<<"[", "[", "A", "]", "]">>, <<"[", "[", "a", "b", "]", "]">>}

\* the notes the links resolve to, titled "a" and "ab"
RaceNotes == {NoteInput(TitleA, <<"a">>), NoteInput(TitleB, <<"a">>)}

\* the calls on noteId that are in flight
InFlightOn(noteId) ==
    {q \in Procs : procs[q].pc # "idle" /\ procs[q].noteId = noteId}

\* syncBacklinksForNote(noteId, content) is called; peers lists the contents
\* of the calls on the same note that are in flight during this call
BacklinkSyncBegin(p, noteId, content) ==
    /\ Budget
    /\ procs[p].pc = "idle"
    /\ noteId \in DOMAIN stores["notes"]
    /\ procs' = [q \in Procs |->
                    IF q = p
                    THEN [pc |-> "remove", noteId |-> noteId, content |-> content,
                          wikiLinks |-> extractWikiLinksFromContent(content),
                          peers |-> [i \in 1 .. Cardinality(InFlightOn(noteId)) |->
                                        procs[SortAsc(InFlightOn(noteId))[i]].content]]
                    ELSE IF q \in InFlightOn(noteId)
                    THEN [procs[q] EXCEPT !.peers = Append(@, content)]
                    ELSE procs[q]]
    /\ UNCHANGED <<db, schema, version, stores, clock, used, editor, search, succ, last>>

\* what the call pr reports when it completes with result
SyncCompleted(pr, result) ==
    [n |-> last.n + 1, op |-> "syncBacklinksForNote", id |-> pr.noteId,
     content |-> pr.content, peers |-> pr.peers, result |-> result]

\* await removeBacklinksFromNote(noteId)
BacklinkSyncRemove(p) ==
    /\ procs[p].pc = "remove"
    /\ \E r \in {removeBacklinksFromNote(World, procs[p].noteId)} :
          /\ SetWorld(r.w)
          /\ procs' = [procs EXCEPT ![p] =
                          IF r.result # "ok" \/ procs[p].wikiLinks = << >>
                          THEN Idle ELSE [@ EXCEPT !.pc = "create"]]
          /\ last' = IF r.result # "ok" \/ procs[p].wikiLinks = << >>
                     THEN SyncCompleted(procs[p], r.result) ELSE last
    /\ UNCHANGED <<db, schema, version, editor, search, succ>>

\* one turn of the loop over wikiLinks: findNoteByTitle, then createBacklink
BacklinkSyncCreate(p) ==
    /\ procs[p].pc = "create"
    /\ \E r \in {CreateLinksLoop(World, procs[p].noteId,
                                  <<Head(procs[p].wikiLinks)>>)} :
          /\ SetWorld(r.w)
          /\ procs' = [procs EXCEPT ![p] =
                          IF r.result # "ok" \/ Tail(procs[p].wikiLinks) = << >>
                          THEN Idle ELSE [@ EXCEPT !.wikiLinks = Tail(@)]]
          /\ last' = IF r.result # "ok" \/ Tail(procs[p].wikiLinks) = << >>
                     THEN SyncCompleted(procs[p], r.result) ELSE last
    /\ UNCHANGED <<db, schema, version, editor, search, succ>>

NextLinkRace ==
    \/ Initialize
    \/ \E noteData \in RaceNotes, id \in NoteIds : CreateNoteCall(noteData, id)
    \/ \E p \in Procs, id \in NoteIds, content \in RaceContents :
          BacklinkSyncBegin(p, id, content)
    \/ \E p \in Procs : BacklinkSyncRemove(p)
    \/ \E p \in Procs : BacklinkSyncCreate(p)

SpecLinkRace == InitStore /\ [][NextLinkRace]_vars

\* the outgoing rows of note n correspond one-to-one to the wiki-links of
\* content that resolve to a note
RowsMatch(n, content) ==
    LET spans == {sp \in LinkSpans(content) : Resolved(SpanTitle(content, sp)) # 0}
    IN /\ Cardinality(Outgoing(Backlinks, n)) = Cardinality(spans)
       /\ \A sp \in spans :
             \E b \in Outgoing(Backlinks, n) :
                /\ Backlinks[b].targetNoteId = Resolved(SpanTitle(content, sp))
                /\ Backlinks[b].position = [start |-> sp[1] - 1, end |-> sp[2]]

\* C29: when two syncBacklinksForNote calls for the same note were in flight
\* together and both have completed, the note's outgoing rows correspond
\* one-to-one to the resolved wiki-links of one of the two contents
C29_ConcurrentSyncOneContent ==
    (/\ last.op = "syncBacklinksForNote"
     /\ last.result = "ok"
     /\ Len(last.peers) = 1
     /\ \A p \in Procs : procs[p].pc = "idle") =>
        RowsMatch(last.id, last.content) \/ RowsMatch(last.id, last.peers[1])

====
